---- MODULE Spec2Model ----
(***************************************************************************)
(* Tool-result guard: the atomic session-log rewrite                       *)
(* (persistToolResultCompaction) and the guard configuration lookup        *)
(* (resolveToolResultGuardConfig).                                         *)
(***************************************************************************)
EXTENDS Integers, Sequences, FiniteSets, TLC

----------------------------------------------------------------------------
(* Bounds of the model. *)

\* longest session file, in lines
MaxLines == 2
\* most fields present in a `when` predicate given to matchesContext
MaxWhenFields == 2
\* most fields populated in a context given to matchesContext
MaxContextFields == 2
\* most tool results the compaction planner is given
MaxCandidates == 3
\* the context window of the model, in units of estimated size
Window == 20
\* last millisecond of the clock: Date.now() returns any of 0..MaxClock (the wall
\* clock may be set back between two calls)
MaxClock == 1

----------------------------------------------------------------------------
(* Session-file lines.                                                     *)
(*                                                                         *)
(* A file is a sequence of lines. A line is a record:                      *)
(*   kind      "blank" (empty or whitespace only), "garbage" (JSON.parse   *)
(*             throws) or "json"                                           *)
(*   fmt       the spelling of the raw text: "canon" is the text           *)
(*             JSON.stringify produces, "spaced" any other spelling of the *)
(*             same value (extra whitespace, escapes)                      *)
(*   eol       the terminator that followed the line: "LF" or "CRLF"       *)
(*   etype     entry.type                                                  *)
(*   hasMsg    entry.message is present                                    *)
(*   role, mtype, toolCallId, content, details: the fields of the message  *)
(*             ("-" stands for an absent string field)                     *)
(* content is [shape, text, blocks]: shape "undefined" (field absent),     *)
(* "string", "array" or "null"; blocks are [obj, btype, text].             *)
(***************************************************************************)

PREEMPTIVE_TOOL_RESULT_COMPACTION_PLACEHOLDER == "[compacted]"

Absent == "-"

Undefined == [shape |-> "undefined", text |-> Absent, blocks |-> <<>>]

Null == [shape |-> "null", text |-> Absent, blocks |-> <<>>]

Str(s) == [shape |-> "string", text |-> s, blocks |-> <<>>]

Arr(bs) == [shape |-> "array", text |-> Absent, blocks |-> bs]

\* the content block {type: "text", text: s}
TextBlock(s) == [obj |-> TRUE, btype |-> "text", text |-> s]

\* an array element that is a bare string, not an object
BareString(s) == [obj |-> FALSE, btype |-> Absent, text |-> s]

Json(etype, hasMsg, role, mtype, id, content, details, fmt, eol) ==
  [kind |-> "json", fmt |-> fmt, eol |-> eol, etype |-> etype, hasMsg |-> hasMsg,
   role |-> role, mtype |-> mtype, toolCallId |-> id, content |-> content,
   details |-> details]

Raw(kind, eol) ==
  [kind |-> kind, fmt |-> "spaced", eol |-> eol, etype |-> Absent, hasMsg |-> FALSE,
   role |-> Absent, mtype |-> Absent, toolCallId |-> Absent, content |-> Undefined,
   details |-> Absent]

\* makeEntry of the tests: {type: "message", message: msg}, written by JSON.stringify
makeEntry(role, mtype, id, content, details) ==
  Json("message", TRUE, role, mtype, id, content, details, "canon", "LF")

PH == PREEMPTIVE_TOOL_RESULT_COMPACTION_PLACEHOLDER

\* The entries the conversation runtime (or an editor) may have put in the log.
Alphabet ==
  { \* a session header, hand-formatted, from a CRLF file
    Json("session", FALSE, Absent, Absent, Absent, Undefined, Absent, "spaced", "CRLF"),
    Raw("blank", "LF"),
    Raw("garbage", "LF"),
    makeEntry("user", Absent, Absent, Str("hello"), Absent),
    makeEntry("toolResult", Absent, "tc1", Str("orig"), "d"),
    makeEntry("tool", Absent, "tc2", Arr(<<TextBlock("orig")>>), "d"),
    makeEntry(Absent, "toolResult", "tc1", Undefined, Absent),
    \* a tool result whose toolCallId is the empty string
    makeEntry("toolResult", Absent, "", Str("orig"), Absent),
    \* an entry that is not of type "message" but carries a tool-result message
    Json("custom", TRUE, "toolResult", Absent, "tc1", Str("orig"), "d", "canon", "LF") }

\* The id sets a caller may pass as compactedToolCallIds.
RequestSets == { {}, {"tc1"}, {"tc1", "tc2"}, {"", "tc2"} }

\* params.placeholder: callers leave it undefined (Absent)
PlaceholderParams == { Absent }

\* The entries of the race scenario (two invocations at once).
RaceAlphabet ==
  { makeEntry("user", Absent, Absent, Str("hello"), Absent),
    makeEntry("toolResult", Absent, "tc1", Str("orig"), "d"),
    makeEntry("tool", Absent, "tc2", Arr(<<TextBlock("orig")>>), "d") }

RaceRequestSets == { {"tc1"}, {"tc2"} }

----------------------------------------------------------------------------
(* The in-memory transform of persistToolResultCompaction.                 *)

isToolResultEntry(entry) ==
  /\ entry.hasMsg
  /\ \/ entry.role = "toolResult"
     \/ entry.role = "tool"
     \/ entry.mtype = "toolResult"

\* entry.message?.toolCallId is truthy: present and not the empty string
TruthyId(entry) ==
  entry.hasMsg /\ entry.toolCallId # Absent /\ entry.toolCallId # ""

\* mutant: the entry type is not looked at
Matches_AnyType(entry, compactedToolCallIds) ==
  /\ isToolResultEntry(entry)
  /\ TruthyId(entry)
  /\ entry.toolCallId \in compactedToolCallIds

\* the condition of the if at lines 76-81
Matches(entry, compactedToolCallIds) ==
  /\ entry.etype = "message"
  /\ isToolResultEntry(entry)
  /\ TruthyId(entry)
  /\ entry.toolCallId \in compactedToolCallIds

\* mutant: only the string form is recognised
isAlreadyCompacted_StringOnly(originalContent, placeholder) ==
  originalContent.shape = "string" /\ originalContent.text = placeholder

isAlreadyCompacted(originalContent, placeholder) ==
  \/ originalContent.shape = "string" /\ originalContent.text = placeholder
  \/ /\ originalContent.shape = "array"
     /\ Len(originalContent.blocks) = 1
     /\ originalContent.blocks[1].obj
     /\ originalContent.blocks[1].text = placeholder

\* mutant: the content is emptied instead of replaced by the placeholder
PlaceholderContent_Empty(originalContent, placeholder) ==
  IF originalContent.shape = "string" \/ originalContent.shape = "undefined"
    THEN Str("")
    ELSE Arr(<<>>)

\* mutant: the placeholder is always written as a list
PlaceholderContent_AlwaysList(originalContent, placeholder) ==
  Arr(<<TextBlock(placeholder)>>)

\* the new msg.content of lines 97-101
PlaceholderContent(originalContent, placeholder) ==
  IF originalContent.shape = "string" \/ originalContent.shape = "undefined"
    THEN Str(placeholder)
    ELSE Arr(<<TextBlock(placeholder)>>)

\* lines 95-105: the entry with content replaced and details deleted
CompactEntry(entry, placeholder) ==
  [entry EXCEPT !.content = PlaceholderContent(entry.content, placeholder),
                !.details = Absent]

\* an entry is rewritten iff it matches and is not already compacted
Rewritten(entry, compactedToolCallIds, placeholder) ==
  /\ Matches(entry, compactedToolCallIds)
  /\ ~isAlreadyCompacted(entry.content, placeholder)

\* mutant: a parsed line is written back in the spelling it was read in
Restringify_Verbatim(entry) == entry

\* JSON.stringify(JSON.parse(line)): the value in JSON.stringify's spelling
Restringify(entry) == [entry EXCEPT !.fmt = "canon"]

\* one iteration of the loop at lines 61-109: the output line for an input line
OutputLine(line, compactedToolCallIds, placeholder) ==
  IF line.kind # "json"
    THEN line
    ELSE IF Rewritten(line, compactedToolCallIds, placeholder)
           THEN Restringify(CompactEntry(line, placeholder))
           ELSE Restringify(line)

\* content.split(/\r?\n/) then outputLines.join("\n"): every terminator becomes LF
JoinLF(lines) == [i \in 1..Len(lines) |-> [lines[i] EXCEPT !.eol = "LF"]]

\* outputLines.join("\n") for the lines read
OutputLines(lines, compactedToolCallIds, placeholder) ==
  JoinLF([i \in 1..Len(lines) |-> OutputLine(lines[i], compactedToolCallIds, placeholder)])

\* updatedCount after the loop
UpdatedCount(lines, compactedToolCallIds, placeholder) ==
  Cardinality({i \in 1..Len(lines) :
                 /\ lines[i].kind = "json"
                 /\ Rewritten(lines[i], compactedToolCallIds, placeholder)})

----------------------------------------------------------------------------
(* The file system and the invocations.                                    *)

WriterSeq == <<"w1", "w2">>

Writers == {WriterSeq[k] : k \in 1..Len(WriterSeq)}

PidSeq == <<"p1", "p2">>

Pids == {PidSeq[k] : k \in 1..Len(PidSeq)}

InodeSeq == <<"i1", "i2", "i3", "i4", "i5">>

Inodes == {InodeSeq[k] : k \in 1..Len(InodeSeq)}

NoFile == "none"

\* the temp paths `${sessionFile}.guard-persist-${process.pid}-${Date.now()}.tmp`
TmpPaths == [pid : Pids, t : 0..MaxClock]

TmpPathSeq ==
  [k \in 1..(Len(PidSeq) * (MaxClock + 1)) |->
     [pid |-> PidSeq[((k - 1) \div (MaxClock + 1)) + 1], t |-> (k - 1) % (MaxClock + 1)]]

FreeInode == [data |-> <<>>, mode |-> Absent]

\* mode of the session file as the runtime creates it, and of a file fs.writeFile creates
SessionMode == "0600"

CreateMode == "0644"

Pending == [persisted |-> FALSE, updatedCount |-> -1]

NoPath == [pid |-> "p1", t |-> 0]

Idle ==
  [pc |-> "idle", ids |-> {}, placeholder |-> Absent, lines |-> <<>>,
   outputLines |-> <<>>, updatedCount |-> 0, tmpPath |-> NoPath,
   fd |-> NoFile, stat |-> Absent, result |-> Pending, warnings |-> <<>>,
   failedAt |-> "none", ops |-> {}, changed |-> FALSE,
   repeat |-> FALSE, quiet |-> FALSE]

VARIABLES
  sessionIno,   \* inode at the session-file path, or NoFile
  tmpDir,       \* temp path -> inode or NoFile
  inodes,       \* inode -> [data, mode]
  pidOf,        \* writer -> process.pid of the process it runs in
  inv,          \* writer -> the state of its invocation of persistToolResultCompaction
  legit,        \* history: the content atomic replacement would show at the session path
  appended,     \* history: an entry was appended since the latest readFile
  cfg,          \* the configuration (params.cfg)
  phase,        \* "config", "resolved" (guardResult is the result for cfg and query),
                \* "edited" (cfg was edited after the result) or "stability" (stability
                \* is the result for cfg, query and context)
  query,        \* [agentId, modelKey] of the latest resolveToolResultGuardConfig
  guardResult,  \* what it returned
  fell,         \* history: the level the latest edit removed (0: no edit)
  before,       \* history: the candidates before that edit
  context,      \* params.context of the latest resolveKvCacheStability
  stability,    \* what it returned
  threw,        \* the latest call of one of the two resolvers threw
  when,         \* the predicate given to matchesContext
  ctx,          \* the context given to matchesContext
  matched,      \* what matchesContext returned
  planInput,    \* what the compaction planner is called with
  planResult    \* the plan it returned

rewriteVars == <<sessionIno, tmpDir, inodes, pidOf, inv, legit, appended>>

guardVars == <<cfg, phase, query, guardResult, fell, before>>

stabilityVars == <<context, stability, threw>>

matchVars == <<when, ctx, matched>>

planVars == <<planInput, planResult>>

configVars == <<guardVars, stabilityVars, matchVars, planVars>>

vars == <<rewriteVars, configVars>>

DataAt(ino, s) == IF s = NoFile THEN <<>> ELSE ino[s].data

\* what a reader of the session-file path finds
SessionData == DataAt(inodes, sessionIno)

\* every reference to an inode: the paths, then the open descriptors
References(s, t, v) ==
  <<s>> \o [k \in 1..Len(TmpPathSeq) |-> t[TmpPathSeq[k]]]
        \o [k \in 1..Len(WriterSeq) |-> v[WriterSeq[k]].fd]

Referenced(s, t, v) ==
  LET refs == References(s, t, v) IN {refs[k] : k \in 1..Len(refs)} \ {NoFile}

\* an inode nothing refers to
FreshInode == CHOOSE i \in Inodes : i \notin Referenced(sessionIno, tmpDir, inv)

\* the distinct inodes of refs[k..], in order, after those of seen
RECURSIVE Distinct(_, _, _)
Distinct(refs, k, seen) ==
  IF k > Len(refs) THEN seen
  ELSE IF refs[k] = NoFile \/ \E j \in 1..Len(seen) : seen[j] = refs[k]
         THEN Distinct(refs, k + 1, seen)
         ELSE Distinct(refs, k + 1, Append(seen, refs[k]))

\* Inode numbers carry no meaning: a state is kept with its inodes numbered in the
\* order of References (order is that list without repetitions), and the inodes
\* nothing refers to freed.
Renumber(x, order) ==
  IF x = NoFile THEN NoFile
  ELSE InodeSeq[CHOOSE k \in 1..Len(order) : order[k] = x]

NotPersisted == [persisted |-> FALSE, updatedCount |-> 0]

ReadWarning == "tool result guard persistence: failed to read session file"

WriteWarning == "tool result guard persistence: failed to write session file"

\* The state after a step of w that acts on the file system: rec is w's
\* invocation, (s, t, ino) the file system. rec.changed records whether a step of
\* this invocation changed what is found at the session-file path.
Commit(w, rec, s, t, ino) ==
  LET v1 == [inv EXCEPT ![w] = rec]
      order == Distinct(References(s, t, v1), 1, <<>>)
      differs == \/ (s = NoFile) # (sessionIno = NoFile)
                 \/ DataAt(ino, s) # SessionData
  IN /\ sessionIno' = Renumber(s, order)
     /\ tmpDir' = [p \in TmpPaths |-> Renumber(t[p], order)]
     /\ inodes' = [i \in Inodes |->
                     LET k == CHOOSE j \in 1..Len(InodeSeq) : InodeSeq[j] = i
                     IN IF k <= Len(order) THEN ino[order[k]] ELSE FreeInode]
     /\ inv' = [u \in Writers |->
                  [v1[u] EXCEPT !.fd = Renumber(v1[u].fd, order),
                                !.changed = IF u = w THEN rec.changed \/ differs ELSE @]]
     /\ UNCHANGED configVars

\* the state after a step of w that leaves the file system alone
Keep(w, rec) ==
  /\ inv' = [inv EXCEPT ![w] = rec]
  /\ UNCHANGED <<sessionIno, tmpDir, inodes>>
  /\ UNCHANGED configVars

\* the return: the locals go out of scope
Return(rec, result) ==
  [rec EXCEPT !.pc = "done", !.result = result, !.lines = <<>>, !.outputLines = <<>>,
              !.updatedCount = 0, !.tmpPath = NoPath, !.fd = NoFile, !.stat = Absent]

\* how an invocation ended
Outcome(rec) ==
  IF rec.result.persisted THEN "persisted"
  ELSE IF rec.failedAt = "none" THEN "noop" ELSE "failed"

\* lines 40-45: the call, up to the first await. rec.repeat records that the
\* previous invocation completed without failure for the same ids and placeholder.
Call(w, compactedToolCallIds, placeholderParam) ==
  /\ inv[w].pc \in {"idle", "done"}
  /\ LET placeholder == IF placeholderParam = Absent
                          THEN PREEMPTIVE_TOOL_RESULT_COMPACTION_PLACEHOLDER
                          ELSE placeholderParam
         rec == [Idle EXCEPT !.ids = compactedToolCallIds, !.placeholder = placeholder,
                             !.repeat = /\ inv[w].pc = "done"
                                        /\ inv[w].ids = compactedToolCallIds
                                        /\ inv[w].placeholder = placeholder
                                        /\ Outcome(inv[w]) # "failed"]
     IN IF Cardinality(compactedToolCallIds) = 0
          THEN Keep(w, Return(rec, NotPersisted))
          ELSE Keep(w, [rec EXCEPT !.pc = "read"])
  /\ UNCHANGED <<pidOf, legit, appended>>

\* mutant: the read failure is swallowed without a warning
ReadFail_Silent(w) ==
  /\ inv[w].pc = "read"
  /\ Keep(w, Return([inv[w] EXCEPT !.failedAt = "read", !.ops = @ \cup {"readFile"},
                                   !.quiet = ~appended],
                    NotPersisted))
  /\ appended' = FALSE
  /\ UNCHANGED <<pidOf, legit>>

\* lines 47-54: fs.readFile fails
ReadFail(w) ==
  /\ inv[w].pc = "read"
  /\ Keep(w, Return([inv[w] EXCEPT !.warnings = Append(@, ReadWarning),
                                   !.failedAt = "read", !.ops = @ \cup {"readFile"},
                                   !.quiet = ~appended],
                    NotPersisted))
  /\ appended' = FALSE
  /\ UNCHANGED <<pidOf, legit>>

\* mutant: no early return when nothing was modified
ReadOk_AlwaysWrite(w) ==
  /\ inv[w].pc = "read"
  /\ sessionIno # NoFile
  /\ LET lines == inodes[sessionIno].data
         rec == [inv[w] EXCEPT !.lines = lines,
                               !.outputLines = OutputLines(lines, inv[w].ids, inv[w].placeholder),
                               !.updatedCount = UpdatedCount(lines, inv[w].ids, inv[w].placeholder),
                               !.ops = @ \cup {"readFile"},
                               !.quiet = ~appended]
     IN \E t \in 0..MaxClock :
          Keep(w, [rec EXCEPT !.pc = "stat", !.tmpPath = [pid |-> pidOf[w], t |-> t]])
  /\ appended' = FALSE
  /\ UNCHANGED <<pidOf, legit>>

\* lines 47-116: fs.readFile succeeds; the loop, the early return, the temp name.
\* Date.now() returns t.
ReadOk(w) ==
  /\ inv[w].pc = "read"
  /\ sessionIno # NoFile
  /\ LET lines == inodes[sessionIno].data
         outputLines == OutputLines(lines, inv[w].ids, inv[w].placeholder)
         updatedCount == UpdatedCount(lines, inv[w].ids, inv[w].placeholder)
         modified == updatedCount > 0
         rec == [inv[w] EXCEPT !.lines = lines, !.outputLines = outputLines,
                               !.updatedCount = updatedCount,
                               !.ops = @ \cup {"readFile"},
                               !.quiet = ~appended]
     IN IF ~modified
          THEN Keep(w, Return(rec, NotPersisted))
          ELSE \E t \in 0..MaxClock :
                 Keep(w, [rec EXCEPT !.pc = "stat",
                                     !.tmpPath = [pid |-> pidOf[w], t |-> t]])
  /\ appended' = FALSE
  /\ UNCHANGED <<pidOf, legit>>

\* line 118: fs.stat(sessionFile).catch(() => null)
Stat(w) ==
  /\ inv[w].pc = "stat"
  /\ \E ok \in BOOLEAN :
       LET stat == IF ok /\ sessionIno # NoFile THEN inodes[sessionIno].mode ELSE Absent
       IN Keep(w, [inv[w] EXCEPT !.pc = "open", !.stat = stat, !.ops = @ \cup {"stat"}])
  /\ UNCHANGED <<pidOf, legit, appended>>

\* line 119, first half: fs.writeFile opens tmpPath with O_CREAT | O_TRUNC
OpenTmp(w) ==
  /\ inv[w].pc = "open"
  /\ LET path == inv[w].tmpPath
         exists == tmpDir[path] # NoFile
         i == IF exists THEN tmpDir[path] ELSE FreshInode
         mode == IF exists THEN inodes[i].mode ELSE CreateMode
     IN \/ Commit(w, [inv[w] EXCEPT !.pc = "write", !.fd = i, !.ops = @ \cup {"open"}],
                  sessionIno, [tmpDir EXCEPT ![path] = i],
                  [inodes EXCEPT ![i] = [data |-> <<>>, mode |-> mode]])
        \/ Keep(w, [inv[w] EXCEPT !.pc = "catch", !.failedAt = "write",
                                  !.ops = @ \cup {"open"}])
  /\ UNCHANGED <<pidOf, legit, appended>>

\* bytes written at offset 0 of a file: what lay beyond them stays
Overwrite(old, new) ==
  IF Len(new) >= Len(old) THEN new ELSE new \o SubSeq(old, Len(new) + 1, Len(old))

\* line 119, second half: fs.writeFile writes outputLines.join("\n") and closes;
\* a failing write (ENOSPC, EIO) leaves the text short of its last line
WriteTmp(w) ==
  /\ inv[w].pc = "write"
  /\ LET i == inv[w].fd
         old == inodes[i].data
         out == inv[w].outputLines
     IN \/ Commit(w, [inv[w] EXCEPT !.pc = "chmod", !.fd = NoFile, !.ops = @ \cup {"write"}],
                  sessionIno, tmpDir,
                  [inodes EXCEPT ![i].data = Overwrite(old, out)])
        \/ Commit(w, [inv[w] EXCEPT !.pc = "catch", !.fd = NoFile, !.failedAt = "write",
                                    !.ops = @ \cup {"write"}],
                  sessionIno, tmpDir,
                  [inodes EXCEPT ![i].data = Overwrite(old, SubSeq(out, 1, Len(out) - 1))])
  /\ UNCHANGED <<pidOf, legit, appended>>

\* lines 120-122: if (stat) await fs.chmod(tmpPath, stat.mode)
Chmod(w) ==
  /\ inv[w].pc = "chmod"
  /\ LET path == inv[w].tmpPath
         i == tmpDir[path]
     IN IF inv[w].stat = Absent
          THEN Keep(w, [inv[w] EXCEPT !.pc = "rename"])
          ELSE \/ /\ i # NoFile
                  /\ Commit(w, [inv[w] EXCEPT !.pc = "rename", !.ops = @ \cup {"chmod"}],
                            sessionIno, tmpDir,
                            [inodes EXCEPT ![i].mode = inv[w].stat])
               \/ Keep(w, [inv[w] EXCEPT !.pc = "catch", !.failedAt = "chmod",
                                         !.ops = @ \cup {"chmod"}])
  /\ UNCHANGED <<pidOf, legit, appended>>

\* the directory after rename(2) of path onto the session-file path
RenameOver(path) == [session |-> tmpDir[path], tmp |-> [tmpDir EXCEPT ![path] = NoFile]]

\* line 123 and line 135: fs.rename succeeds
RenameOk(w) ==
  /\ inv[w].pc = "rename"
  /\ tmpDir[inv[w].tmpPath] # NoFile
  /\ LET d == RenameOver(inv[w].tmpPath)
     IN Commit(w, Return([inv[w] EXCEPT !.ops = @ \cup {"rename"}],
                         [persisted |-> TRUE, updatedCount |-> inv[w].updatedCount]),
               d.session, d.tmp, inodes)
  /\ legit' = inv[w].outputLines
  /\ UNCHANGED <<pidOf, appended>>

\* line 123: fs.rename fails (always when tmpPath is gone)
RenameFail(w) ==
  /\ inv[w].pc = "rename"
  /\ Keep(w, [inv[w] EXCEPT !.pc = "catch", !.failedAt = "rename",
                            !.ops = @ \cup {"rename"}])
  /\ UNCHANGED <<pidOf, legit, appended>>

\* mutant: no cleanup of the temp file
Catch_NoUnlink(w) ==
  /\ inv[w].pc = "catch"
  /\ Keep(w, Return([inv[w] EXCEPT !.warnings = Append(@, WriteWarning)], NotPersisted))
  /\ UNCHANGED <<pidOf, legit, appended>>

\* lines 124-133: unlink tmpPath (it fails when the path is gone, and the failure is
\* swallowed), warn, return
Catch(w) ==
  /\ inv[w].pc = "catch"
  /\ Commit(w, Return([inv[w] EXCEPT !.warnings = Append(@, WriteWarning),
                                     !.ops = @ \cup {"unlink"}],
                      NotPersisted),
            sessionIno, [tmpDir EXCEPT ![inv[w].tmpPath] = NoFile], inodes)
  /\ UNCHANGED <<pidOf, legit, appended>>

\* the steps of an invocation after the call
Steps(w) ==
  \/ ReadFail(w)
  \/ ReadOk(w)
  \/ Stat(w)
  \/ OpenTmp(w)
  \/ WriteTmp(w)
  \/ Chmod(w)
  \/ RenameOk(w)
  \/ RenameFail(w)
  \/ Catch(w)

\* the conversation runtime appends one entry (fs.appendFile creates the file)
AppendEntry(entries) ==
  /\ Len(SessionData) < MaxLines
  /\ \E e \in entries :
       LET i == IF sessionIno = NoFile THEN FreshInode ELSE sessionIno
           old == IF sessionIno = NoFile
                    THEN [data |-> <<>>, mode |-> SessionMode]
                    ELSE inodes[i]
       IN /\ sessionIno' = i
          /\ inodes' = [inodes EXCEPT ![i] = [old EXCEPT !.data = Append(@, e)]]
          /\ legit' = Append(legit, e)
  /\ appended' = TRUE
  /\ UNCHANGED <<tmpDir, pidOf, inv>>
  /\ UNCHANGED configVars

----------------------------------------------------------------------------
(* The guard configuration.                                                *)
(*                                                                         *)
(* An optional value is <<>> (undefined) or <<v>>. A model key is the      *)
(* sequence of its pieces, each "/" a piece of its own, so that indexOf    *)
(* and slice act on it as on the string. A guard block is [mode,           *)
(* compactionTarget], "-" standing for an absent field.                    *)
(***************************************************************************)

None == <<>>

Some(v) == <<v>>

Slash == "/"

ModelKey(provider, model) == <<provider, Slash, model>>

Guard(mode, compactionTarget) == [mode |-> mode, compactionTarget |-> compactionTarget]

\* the toolResultGuard blocks of the configurations
Guards == { Guard("persistent", Absent), Guard("disabled", "0.4"), Guard(Absent, "0.5") }

OptGuards == {None} \cup {Some(g) : g \in Guards}

\* the keys of the models maps of the configurations
MapKeys == { ModelKey("ollama", "llama"), ModelKey("ollama", "*") }

ModelsMaps ==
  UNION {[S -> [toolResultGuard : {Some(g) : g \in Guards}]] : S \in SUBSET MapKeys}

OptModels == {None} \cup {Some(m) : m \in ModelsMaps}

\* agents.defaults
DefaultsSet == [toolResultGuard : OptGuards, models : OptModels]

\* the entries of agents.list: the agent "main", and before it or without it one
\* other agent
MainEntries == [id : {"main"}, toolResultGuard : OptGuards, models : OptModels]

OtherEntry ==
  [id |-> "other", toolResultGuard |-> Some(Guard("disabled", "0.4")), models |-> None]

Lists ==
  {<<OtherEntry>>} \cup {<<e>> : e \in MainEntries} \cup {<<OtherEntry, e>> : e \in MainEntries}

AgentsSet ==
  [defaults : {None} \cup {Some(d) : d \in DefaultsSet},
   list : {None} \cup {Some(l) : l \in Lists}]

\* params.cfg: absent, without agents, or with agents
Configs ==
  {None, Some([agents |-> None])} \cup {Some([agents |-> Some(a)]) : a \in AgentsSet}

\* params.agentId and params.modelKey
AgentIds == {None, Some("main"), Some("ghost")}

QueryKeys ==
  {None, Some(ModelKey("ollama", "llama")), Some(ModelKey("ollama", "small")),
   Some(ModelKey("openai", "gpt-4")), Some(<<"llama">>),
   Some(<<"ollama", Slash, "library", Slash, "llama">>)}

\* String.prototype.indexOf for one piece: the 0-based place of the first, or -1
indexOf(str, piece) ==
  IF \E k \in 1..Len(str) : str[k] = piece
    THEN (CHOOSE k \in 1..Len(str) :
            str[k] = piece /\ \A j \in 1..(k - 1) : str[j] # piece) - 1
    ELSE -1

\* String.prototype.slice(from, to), 0 <= from <= to
slice(str, from, to) == SubSeq(str, from + 1, to)

\* models[key]?.toolResultGuard
GuardAt(models, key) ==
  IF key \in DOMAIN models THEN models[key].toolResultGuard ELSE None

\* mutant: the wildcard entry is looked up first
lookupModelGuard_WildcardFirst(models, modelKey) ==
  IF models = None \/ modelKey = None \/ modelKey = Some(<<>>)
    THEN None
    ELSE LET slash == indexOf(modelKey[1], Slash)
             wildcard == slice(modelKey[1], 0, slash) \o <<Slash, "*">>
             viaWildcard == IF slash > 0 THEN GuardAt(models[1], wildcard) ELSE None
         IN IF viaWildcard # None THEN viaWildcard ELSE GuardAt(models[1], modelKey[1])

\* mutant: the wildcard is tried only for a key with exactly one "/"
lookupModelGuard_OneSlash(models, modelKey) ==
  IF models = None \/ modelKey = None \/ modelKey = Some(<<>>)
    THEN None
    ELSE LET exact == GuardAt(models[1], modelKey[1])
         IN IF exact # None
              THEN exact
              ELSE LET slash == indexOf(modelKey[1], Slash)
                   IN IF slash > 0 /\ indexOf(SubSeq(modelKey[1], slash + 2, Len(modelKey[1])), Slash) = -1
                        THEN LET wildcard == slice(modelKey[1], 0, slash) \o <<Slash, "*">>
                             IN GuardAt(models[1], wildcard)
                        ELSE None

lookupModelGuard(models, modelKey) ==
  IF models = None \/ modelKey = None \/ modelKey = Some(<<>>)
    THEN None
    ELSE LET exact == GuardAt(models[1], modelKey[1])
         IN IF exact # None
              THEN exact
              ELSE LET slash == indexOf(modelKey[1], Slash)
                   IN IF slash > 0
                        THEN LET wildcard == slice(modelKey[1], 0, slash) \o <<Slash, "*">>
                             IN GuardAt(models[1], wildcard)
                        ELSE None

\* cfg.agents.list?.find((a) => a.id === agentId): the place in the list, 0 if none
FindAgent(list, agentId) ==
  IF list = None \/ ~\E k \in 1..Len(list[1]) : list[1][k].id = agentId
    THEN 0
    ELSE CHOOSE k \in 1..Len(list[1]) :
           list[1][k].id = agentId /\ \A j \in 1..(k - 1) : list[1][j].id # agentId

\* agentEntry of line 59, for a configuration with agents
AgentEntry(agents, agentId) ==
  IF agentId = None \/ FindAgent(agents.list, agentId[1]) = 0
    THEN None
    ELSE Some(agents.list[1][FindAgent(agents.list, agentId[1])])

\* mutant: the global levels are looked at before the agent's
candidates_DefaultsFirst(agents, agentId, modelKey) ==
  LET defaults == agents.defaults
      agentEntry == AgentEntry(agents, agentId)
  IN << lookupModelGuard(IF defaults = None THEN None ELSE defaults[1].models, modelKey),
        IF defaults = None THEN None ELSE defaults[1].toolResultGuard,
        lookupModelGuard(IF agentEntry = None THEN None ELSE agentEntry[1].models, modelKey),
        IF agentEntry = None THEN None ELSE agentEntry[1].toolResultGuard >>

\* the candidates of lines 61-70
candidates(agents, agentId, modelKey) ==
  LET defaults == agents.defaults
      agentEntry == AgentEntry(agents, agentId)
  IN << lookupModelGuard(IF agentEntry = None THEN None ELSE agentEntry[1].models, modelKey),
        IF agentEntry = None THEN None ELSE agentEntry[1].toolResultGuard,
        lookupModelGuard(IF defaults = None THEN None ELSE defaults[1].models, modelKey),
        IF defaults = None THEN None ELSE defaults[1].toolResultGuard >>

\* line 72: candidates.find((c) => c !== undefined), the place of it, 0 if none
FindDefined(arr) ==
  IF \A k \in 1..Len(arr) : arr[k] = None
    THEN 0
    ELSE CHOOSE k \in 1..Len(arr) : arr[k] # None /\ \A j \in 1..(k - 1) : arr[j] = None

HasTarget(c) == c # None /\ c[1].compactionTarget # Absent

\* line 73: candidates.find((c) => c?.compactionTarget !== undefined), likewise
FindTarget(arr) ==
  IF \A k \in 1..Len(arr) : ~HasTarget(arr[k])
    THEN 0
    ELSE CHOOSE k \in 1..Len(arr) :
           HasTarget(arr[k]) /\ \A j \in 1..(k - 1) : ~HasTarget(arr[j])

resolveToolResultGuardConfig(config, agentId, modelKey) ==
  IF config = None \/ config[1].agents = None
    THEN [mode |-> "default", compactionTarget |-> Absent]
    ELSE LET cands == candidates(config[1].agents[1], agentId, modelKey)
             effective == FindDefined(cands)
             compactionTargetCandidate == FindTarget(cands)
         IN [mode |-> IF effective = 0 \/ cands[effective][1].mode = Absent
                        THEN "default"
                        ELSE cands[effective][1].mode,
             compactionTarget |-> IF compactionTargetCandidate = 0
                                    THEN Absent
                                    ELSE cands[compactionTargetCandidate][1].compactionTarget]

\* A property read throws a TypeError when it is plain (`.` or `[]`, not `?.`) and
\* its receiver is undefined. The plain reads of lookupModelGuard, lines 21-35, come
\* after its first check: for each, whether the receiver is undefined.
ModelsPlainReads(models, modelKey) ==
  IF models = None \/ modelKey = None \/ modelKey = Some(<<>>)
    THEN {}
    ELSE {models = None, modelKey = None}

\* the plain reads of resolveToolResultGuardConfig, lines 58-59, and of the calls
\* it makes
GuardPlainReads(config, agentId, modelKey) ==
  IF config = None \/ config[1].agents = None
    THEN {}
    ELSE LET agents == config[1].agents[1]
             agentEntry == AgentEntry(agents, agentId)
         IN {config = None, config[1].agents = None}
              \cup ModelsPlainReads(IF agentEntry = None THEN None ELSE agentEntry[1].models,
                                    modelKey)
              \cup ModelsPlainReads(IF agents.defaults = None
                                      THEN None
                                      ELSE agents.defaults[1].models, modelKey)

----------------------------------------------------------------------------
(* Resolving the guard for a configuration, and editing the configuration. *)

NoQuery == [agentId |-> None, modelKey |-> None]

NoResult == [mode |-> Absent, compactionTarget |-> Absent]

\* The blocks of the four levels of the hierarchy for the query, most specific
\* first: agents.list[id].models[key], agents.list[id], agents.defaults.models[key],
\* agents.defaults.
Levels(config, q) ==
  IF config = None \/ config[1].agents = None
    THEN <<None, None, None, None>>
    ELSE LET agents == config[1].agents[1]
             entry == AgentEntry(agents, q.agentId)
         IN << IF entry = None THEN None ELSE lookupModelGuard(entry[1].models, q.modelKey),
               IF entry = None THEN None ELSE entry[1].toolResultGuard,
               IF agents.defaults = None
                 THEN None
                 ELSE lookupModelGuard(agents.defaults[1].models, q.modelKey),
               IF agents.defaults = None THEN None ELSE agents.defaults[1].toolResultGuard >>

\* the first level that has a block, 0 if none has
FirstLevel(levels) ==
  IF \A k \in 1..Len(levels) : levels[k] = None
    THEN 0
    ELSE CHOOSE k \in 1..Len(levels) :
           levels[k] # None /\ \A j \in 1..(k - 1) : levels[j] = None

\* the keys lookupModelGuard reads for modelKey
KeysRead(modelKey) ==
  IF modelKey = None THEN {}
  ELSE {modelKey[1]} \cup
       (IF indexOf(modelKey[1], Slash) > 0
          THEN {slice(modelKey[1], 0, indexOf(modelKey[1], Slash)) \o <<Slash, "*">>}
          ELSE {})

\* models without the entries for modelKey
WithoutKeys(models, modelKey) ==
  IF models = None THEN None
  ELSE Some([key \in DOMAIN models[1] \ KeysRead(modelKey) |-> models[1][key]])

\* the configuration without the block of level k for the query
WithoutLevel(config, q, k) ==
  LET agents == config[1].agents[1]
      n == IF q.agentId = None THEN 0 ELSE FindAgent(agents.list, q.agentId[1])
      d == agents.defaults[1]
      e == agents.list[1][n]
      a == CASE k = 1 -> [agents EXCEPT !.list = Some([@[1] EXCEPT ![n] =
                            [e EXCEPT !.models = WithoutKeys(e.models, q.modelKey)]])]
             [] k = 2 -> [agents EXCEPT !.list = Some([@[1] EXCEPT ![n] =
                            [e EXCEPT !.toolResultGuard = None]])]
             [] k = 3 -> [agents EXCEPT !.defaults = Some(
                            [d EXCEPT !.models = WithoutKeys(d.models, q.modelKey)])]
             [] k = 4 -> [agents EXCEPT !.defaults = Some(
                            [d EXCEPT !.toolResultGuard = None])]
  IN Some([agents |-> Some(a)])

\* lines 48-79: a call of resolveToolResultGuardConfig; after an edit, the call is
\* for the query the edit was made for
Resolve(agentId, modelKey) ==
  /\ \/ phase = "config"
     \/ phase = "edited" /\ query = [agentId |-> agentId, modelKey |-> modelKey]
  /\ query' = [agentId |-> agentId, modelKey |-> modelKey]
  /\ threw' = (TRUE \in GuardPlainReads(cfg, agentId, modelKey))
  /\ guardResult' = IF threw'
                      THEN NoResult
                      ELSE resolveToolResultGuardConfig(cfg, agentId, modelKey)
  /\ phase' = "resolved"
  /\ before' = <<>>
  /\ UNCHANGED <<cfg, fell, context, stability>>
  /\ UNCHANGED <<rewriteVars, matchVars, planVars>>

\* the operator removes from the configuration the most specific block that the
\* query finds
RemoveLevel ==
  /\ phase = "resolved"
  /\ FirstLevel(Levels(cfg, query)) # 0
  /\ cfg' = WithoutLevel(cfg, query, FirstLevel(Levels(cfg, query)))
  /\ fell' = FirstLevel(Levels(cfg, query))
  /\ before' = Levels(cfg, query)
  /\ phase' = "edited"
  /\ UNCHANGED <<query, guardResult>>
  /\ UNCHANGED <<rewriteVars, stabilityVars, matchVars, planVars>>

GuardOff ==
  /\ cfg = None
  /\ phase = "off"
  /\ query = NoQuery
  /\ guardResult = NoResult
  /\ fell = 0
  /\ before = <<>>

\* no call of resolveKvCacheStability or of matchesContext yet
StabilityOff ==
  /\ context = None
  /\ stability = None
  /\ threw = FALSE

MatchOff ==
  /\ when = None
  /\ ctx = None
  /\ matched = None

\* no call of the compaction planner yet
PlanOff ==
  /\ planInput = None
  /\ planResult = None

RewriteInit ==
  /\ sessionIno = NoFile
  /\ tmpDir = [p \in TmpPaths |-> NoFile]
  /\ inodes = [i \in Inodes |-> FreeInode]
  /\ inv = [w \in Writers |-> Idle]
  /\ legit = <<>>
  /\ appended = FALSE

InitCommon == RewriteInit /\ GuardOff /\ StabilityOff /\ MatchOff /\ PlanOff

\* The race: two invocations, each called once, in one process or in two, while the
\* runtime appends.
Init ==
  /\ InitCommon
  /\ pidOf \in {f \in [Writers -> Pids] : f["w1"] = "p1"}

RaceCall(w) ==
  /\ inv[w].pc = "idle"
  /\ \E I \in RaceRequestSets, p \in PlaceholderParams : Call(w, I, p)

Next ==
  \/ \E w \in Writers : RaceCall(w) \/ Steps(w)
  \/ AppendEntry(RaceAlphabet)

Spec == Init /\ [][Next]_vars

\* Turn after turn: one invocation at a time, called again and again, while the
\* runtime appends.
InitSeq ==
  /\ InitCommon
  /\ pidOf = [w \in Writers |-> "p1"]

NextSeq ==
  \/ \E I \in RequestSets, p \in PlaceholderParams : Call("w1", I, p)
  \/ Steps("w1")
  \/ AppendEntry(Alphabet)

SpecSeq == InitSeq /\ [][NextSeq]_vars

\* The guard lookup: a configuration, resolved for queries and edited in between.
InitGuard ==
  /\ RewriteInit
  /\ pidOf = [w \in Writers |-> "p1"]
  /\ cfg \in Configs
  /\ phase = "config"
  /\ query = NoQuery
  /\ guardResult = NoResult
  /\ fell = 0
  /\ before = <<>>
  /\ StabilityOff
  /\ MatchOff
  /\ PlanOff

NextGuard ==
  \/ \E agentId \in AgentIds, modelKey \in QueryKeys : Resolve(agentId, modelKey)
  \/ RemoveLevel

SpecGuard == InitGuard /\ [][NextGuard]_vars

----------------------------------------------------------------------------
(* Claims about the rewrite.                                               *)

\* the step of w is the rename that succeeds
IsRename(w) == inv[w].pc = "rename" /\ inv'[w].pc = "done"

\* the step of w is the return at line 112: the file was read and nothing written
IsNoopReturn(w) ==
  inv[w].pc = "read" /\ inv'[w].pc = "done" /\ inv'[w].failedAt = "none"

\* a and b are one entry, whatever its content, details and spelling
SameEntry(a, b) ==
  /\ a.kind = b.kind
  /\ a.etype = b.etype
  /\ a.hasMsg = b.hasMsg
  /\ a.role = b.role
  /\ a.mtype = b.mtype
  /\ a.toolCallId = b.toolCallId

\* b has the content and details of a
SameContent(a, b) == a.content = b.content /\ a.details = b.details

\* the file system is as it was
FsUnchanged == sessionIno' = sessionIno /\ tmpDir' = tmpDir /\ inodes' = inodes

\* C1: whatever the interleaving of invocations, appends and readers, the content
\* found at the session-file path is the content before an operation or the complete
\* output of one invocation (with what the runtime appended to it since), never a
\* partial or interleaved text; after a race the file is one writer's whole output.
C1_AtomicReplace == SessionData = legit

\* C2: an invocation whose temp-file write, chmod or rename failed has returned
\* {persisted: false, updatedCount: 0}, has warned once of the write failure, has
\* tried to unlink the temp file, and no step of it changed the session file.
C2_FailureLeavesFile ==
  \A w \in Writers :
    (inv[w].pc = "done" /\ inv[w].failedAt \in {"write", "chmod", "rename"}) =>
      /\ inv[w].result = NotPersisted
      /\ inv[w].warnings = <<WriteWarning>>
      /\ "unlink" \in inv[w].ops
      /\ ~inv[w].changed

\* a failure after the temp file was written and before the rename took effect
C2_Witness ==
  /\ inv["w1"].pc = "done"
  /\ inv["w1"].failedAt = "rename"
  /\ "write" \in inv["w1"].ops
  /\ Len(SessionData) > 0

\* C3: every entry that is in the file just before the rename is in the file after
\* it, whatever the runtime appended while the invocation ran.
C3_NoEntryDeleted ==
  [][\A w \in Writers :
       IsRename(w) =>
         \A i \in 1..Len(SessionData) :
           i <= Len(SessionData') /\ SameEntry(SessionData[i], SessionData'[i])]_vars

\* What the rename does keep: the file after it has exactly the lines the
\* invocation read, each the same entry at the same place.
EntriesReadAreKept ==
  [][\A w \in Writers :
       IsRename(w) =>
         /\ Len(SessionData') = Len(inv[w].lines)
         /\ \A i \in 1..Len(inv[w].lines) :
              SameEntry(inv[w].lines[i], SessionData'[i])]_vars

\* the entry is a tool result in compacted form
IsCompacted(entry, placeholder) ==
  entry.kind = "json" /\ isAlreadyCompacted(entry.content, placeholder)

C4_Returned ==
  \A w \in Writers :
    (/\ inv[w].pc = "done"
     /\ inv[w].repeat
     /\ (inv[w].ids = {} \/ inv[w].quiet)) =>
      /\ inv[w].result = NotPersisted
      /\ ~inv[w].changed
      /\ inv[w].ops \subseteq {"readFile"}

C4_Step ==
  \A w \in Writers :
    IsRename(w) =>
      LET compacted == {i \in 1..Len(inv[w].lines) :
                          IsCompacted(inv[w].lines[i], inv[w].placeholder)}
      IN /\ \A i \in compacted : SameContent(inv[w].lines[i], SessionData'[i])
         /\ inv'[w].result.updatedCount <= Len(inv[w].lines) - Cardinality(compacted)

\* C4: an invocation for the ids and placeholder of the previous one, which did not
\* fail, with nothing appended since that one read the file, returns {persisted:
\* false, updatedCount: 0}, writes nothing and leaves the file as it is; and a
\* rewrite leaves every entry already in compacted form as it is and does not count
\* it.
C4_Idempotent == []C4_Returned /\ [][C4_Step]_vars

\* the second of two equal invocations has returned, over a file with a compacted entry
C4_Witness ==
  /\ inv["w1"].pc = "done"
  /\ inv["w1"].repeat
  /\ inv["w1"].quiet
  /\ "readFile" \in inv["w1"].ops
  /\ \E i \in 1..Len(SessionData) :
       /\ Matches(SessionData[i], inv["w1"].ids)
       /\ IsCompacted(SessionData[i], inv["w1"].placeholder)
       /\ SessionData[i].content.shape = "array"

\* the rewrite of lines for ids changes the content or details of no line
ZeroLinesModified(lines, ids, placeholder) ==
  \A i \in 1..Len(lines) : SameContent(lines[i], OutputLine(lines[i], ids, placeholder))

\* C5: when no line is modified the invocation returns {persisted: false,
\* updatedCount: 0} right after the read, having written, created and renamed
\* nothing; with an empty id set it returns at once, without a read or a warning.
C5_NoWriteWhenUnmodified ==
  [][\A w \in Writers :
       /\ (/\ inv[w].pc = "read"
           /\ inv'[w].pc # "read"
           /\ inv'[w].failedAt = "none"
           /\ ZeroLinesModified(SessionData, inv[w].ids, inv[w].placeholder)) =>
            /\ inv'[w].pc = "done"
            /\ inv'[w].result = NotPersisted
            /\ inv'[w].ops = {"readFile"}
            /\ inv'[w].warnings = <<>>
            /\ FsUnchanged
       /\ (/\ inv[w].pc \in {"idle", "done"}
           /\ inv'[w] # inv[w]
           /\ inv'[w].ids = {}) =>
            /\ inv'[w].pc = "done"
            /\ inv'[w].result = NotPersisted
            /\ inv'[w].ops = {}
            /\ inv'[w].warnings = <<>>
            /\ FsUnchanged]_vars

\* an invocation over a file whose matching entries are compacted has returned
C5_Witness ==
  /\ inv["w1"].pc = "done"
  /\ inv["w1"].failedAt = "none"
  /\ inv["w1"].ops = {"readFile"}
  /\ \E i \in 1..Len(SessionData) :
       /\ Matches(SessionData[i], inv["w1"].ids)
       /\ IsCompacted(SessionData[i], inv["w1"].placeholder)

\* C6 as claimed: a rewritten entry whose content was a string has the placeholder
\* string, one whose content was of any other shape has the one-element list, and
\* its details are gone.
C6_ShapeKept ==
  [][\A w \in Writers :
       IsRename(w) =>
         \A i \in 1..Len(inv[w].lines) :
           LET old == inv[w].lines[i]
               new == SessionData'[i]
           IN (old.kind = "json" /\ Rewritten(old, inv[w].ids, inv[w].placeholder)) =>
                /\ old.content.shape = "string" =>
                     new.content = Str(inv[w].placeholder)
                /\ old.content.shape # "string" =>
                     new.content = Arr(<<TextBlock(inv[w].placeholder)>>)
                /\ new.details = Absent]_vars

\* C6 amended: a rewritten entry whose content was a string or was absent has the
\* placeholder string, one whose content was of any other shape has the
\* one-element list, and its details are gone.
C6_ShapeKeptOrString ==
  [][\A w \in Writers :
       IsRename(w) =>
         \A i \in 1..Len(inv[w].lines) :
           LET old == inv[w].lines[i]
               new == SessionData'[i]
           IN (old.kind = "json" /\ Rewritten(old, inv[w].ids, inv[w].placeholder)) =>
                /\ old.content.shape \in {"string", "undefined"} =>
                     new.content = Str(inv[w].placeholder)
                /\ old.content.shape \notin {"string", "undefined"} =>
                     new.content = Arr(<<TextBlock(inv[w].placeholder)>>)
                /\ new.details = Absent]_vars

\* a tool result without content, one with a list and one with a string were rewritten
C6_Witness ==
  /\ inv["w1"].pc = "done"
  /\ inv["w1"].result.persisted
  /\ \E i, j \in 1..Len(SessionData) :
       /\ SessionData[i].mtype = "toolResult"
       /\ SessionData[i].content = Str(PH)
       /\ SessionData[j].role = "tool"
       /\ SessionData[j].content = Arr(<<TextBlock(PH)>>)
       /\ SessionData[j].details = Absent

\* a tool-result message in the words of C7: the role or type of the message
ClaimedToolResult(entry) ==
  /\ entry.kind = "json"
  /\ entry.hasMsg
  /\ entry.role \in {"toolResult", "tool"} \/ entry.mtype = "toolResult"

\* C7 as claimed: an entry is changed iff it is a tool-result message whose
\* toolCallId is in the requested set and whose content is not the placeholder;
\* every other entry keeps its fields, and the lines keep their number and order.
C7_ChangedIffToolResult ==
  [][\A w \in Writers :
       LET ids == inv[w].ids
           ph == inv[w].placeholder
           due(e) == /\ ClaimedToolResult(e)
                     /\ e.toolCallId \in ids
                     /\ ~isAlreadyCompacted(e.content, ph)
       IN /\ IsRename(w) =>
               /\ Len(SessionData') = Len(inv[w].lines)
               /\ \A i \in 1..Len(inv[w].lines) :
                    LET old == inv[w].lines[i]
                        new == SessionData'[i]
                    IN /\ SameEntry(old, new)
                       /\ ~SameContent(old, new) <=> due(old)
          /\ IsNoopReturn(w) =>
               /\ FsUnchanged
               /\ \A i \in 1..Len(SessionData) : ~due(SessionData[i])]_vars

\* C7 amended: an entry is changed iff its type is "message", it is a tool-result
\* message (role "toolResult" or "tool", or message type "toolResult"), its
\* toolCallId is not empty and is in the requested set, and its content is not the
\* placeholder; every other entry keeps its fields, and the lines keep their number
\* and order.
C7_ChangedIffMessageToolResult ==
  [][\A w \in Writers :
       LET ids == inv[w].ids
           ph == inv[w].placeholder
           due(e) == /\ ClaimedToolResult(e)
                     /\ e.etype = "message"
                     /\ e.toolCallId # ""
                     /\ e.toolCallId \in ids
                     /\ ~isAlreadyCompacted(e.content, ph)
       IN /\ IsRename(w) =>
               /\ Len(SessionData') = Len(inv[w].lines)
               /\ \A i \in 1..Len(inv[w].lines) :
                    LET old == inv[w].lines[i]
                        new == SessionData'[i]
                    IN /\ SameEntry(old, new)
                       /\ ~SameContent(old, new) <=> due(old)
          /\ IsNoopReturn(w) =>
               /\ FsUnchanged
               /\ \A i \in 1..Len(SessionData) : ~due(SessionData[i])]_vars

\* a rewrite changed one tool result and kept, next to it, an entry that is not of
\* type "message" or has an empty toolCallId
C7_Witness ==
  /\ inv["w1"].pc = "done"
  /\ inv["w1"].result.persisted
  /\ \E i, j \in 1..Len(SessionData) :
       /\ IsCompacted(SessionData[i], PH)
       /\ ClaimedToolResult(SessionData[j])
       /\ SessionData[j].etype # "message" \/ SessionData[j].toolCallId = ""
       /\ SessionData[j].toolCallId \in inv["w1"].ids
       /\ SessionData[j].content = Str("orig")

\* C8: an invocation with a non-empty id set whose readFile failed has returned
\* {persisted: false, updatedCount: 0}, has warned exactly once, of the read
\* failure, and has created and changed no file.
C8_ReadFailure ==
  \A w \in Writers :
    (inv[w].pc = "done" /\ inv[w].failedAt = "read") =>
      /\ inv[w].ids # {}
      /\ inv[w].result = NotPersisted
      /\ inv[w].warnings = <<ReadWarning>>
      /\ inv[w].ops = {"readFile"}
      /\ ~inv[w].changed
      /\ \A p \in TmpPaths : tmpDir[p] = NoFile

\* the session file is missing and the invocation has returned
C8_Witness ==
  inv["w1"].pc = "done" /\ inv["w1"].failedAt = "read" /\ sessionIno = NoFile

\* C9: turn after turn, an entry of the log that is compacted stays compacted, and
\* the content of an entry changes only from a content that is not the placeholder
\* to the placeholder: never back, never twice.
C9_NoOscillation ==
  [][\A i \in 1..Len(SessionData) :
       i <= Len(SessionData') =>
         /\ IsCompacted(SessionData[i], PH) => IsCompacted(SessionData'[i], PH)
         /\ SessionData'[i].content # SessionData[i].content =>
              ~IsCompacted(SessionData[i], PH) /\ IsCompacted(SessionData'[i], PH)]_vars

\* a later turn has persisted more compaction over a log that held a compacted entry
C9_Witness ==
  /\ inv["w1"].pc = "done"
  /\ inv["w1"].result.persisted
  /\ Cardinality({i \in 1..Len(SessionData) : IsCompacted(SessionData[i], PH)})
       > inv["w1"].result.updatedCount

----------------------------------------------------------------------------
(* Claims about the guard lookup.                                          *)

\* the mode a block gives: its own, "default" when it has none
ModeOf(block) == IF block[1].mode = Absent THEN "default" ELSE block[1].mode

\* the mode of the most specific of the levels that has a block
MostSpecificMode(levels) ==
  IF FirstLevel(levels) = 0 THEN "default" ELSE ModeOf(levels[FirstLevel(levels)])

C10_Resolved ==
  phase = "resolved" => guardResult.mode = MostSpecificMode(Levels(cfg, query))

C10_FallsThrough ==
  (phase = "edited" /\ phase' = "resolved") =>
    guardResult'.mode =
      MostSpecificMode([k \in 1..4 |-> IF k = fell THEN None ELSE before[k]])

ProviderOf(key) ==
  IF \E k \in 1..Len(key) : key[k] = Slash
    THEN SubSeq(key, 1, (CHOOSE k \in 1..Len(key) :
                           key[k] = Slash /\ \A j \in 1..(k - 1) : key[j] # Slash) - 1)
    ELSE <<>>

\* What a models map gives for a model key by C11: the block of the entry with
\* that very key if there is one, else the block of the entry "provider/*" for the
\* provider of the key.
ExactThenProvider(models, modelKey) ==
  IF models = None \/ modelKey = None THEN None
  ELSE IF modelKey[1] \in DOMAIN models[1] THEN models[1][modelKey[1]].toolResultGuard
  ELSE IF /\ ProviderOf(modelKey[1]) # <<>>
          /\ (ProviderOf(modelKey[1]) \o <<Slash, "*">>) \in DOMAIN models[1]
         THEN models[1][ProviderOf(modelKey[1]) \o <<Slash, "*">>].toolResultGuard
  ELSE None

\* the four levels, the two with a models map read as C11 has it
LevelsExactFirst(config, q) ==
  IF config = None \/ config[1].agents = None
    THEN <<None, None, None, None>>
    ELSE LET agents == config[1].agents[1]
             entry == AgentEntry(agents, q.agentId)
         IN << IF entry = None THEN None ELSE ExactThenProvider(entry[1].models, q.modelKey),
               IF entry = None THEN None ELSE entry[1].toolResultGuard,
               IF agents.defaults = None
                 THEN None
                 ELSE ExactThenProvider(agents.defaults[1].models, q.modelKey),
               IF agents.defaults = None THEN None ELSE agents.defaults[1].toolResultGuard >>

C11_OtherProvider ==
  /\ phase = "resolved"
  /\ query.modelKey = Some(ModelKey("openai", "gpt-4"))
  /\ LevelsExactFirst(cfg, query) = <<None, None, None, None>>
  /\ cfg # None /\ cfg[1].agents # None /\ cfg[1].agents[1].defaults # None
  /\ cfg[1].agents[1].defaults[1].models # None
  /\ ModelKey("ollama", "*") \in DOMAIN cfg[1].agents[1].defaults[1].models[1]
  /\ guardResult.mode = "default"

\* the first level whose block names a mode, 0 if none does
FirstWithMode(levels) ==
  IF \A k \in 1..Len(levels) : levels[k] = None \/ levels[k][1].mode = Absent
    THEN 0
    ELSE CHOOSE k \in 1..Len(levels) :
           /\ levels[k] # None /\ levels[k][1].mode # Absent
           /\ \A j \in 1..(k - 1) : levels[j] = None \/ levels[j][1].mode = Absent

\* the first level whose block names a compactionTarget, 0 if none does
FirstWithTarget(levels) ==
  IF \A k \in 1..Len(levels) : levels[k] = None \/ levels[k][1].compactionTarget = Absent
    THEN 0
    ELSE CHOOSE k \in 1..Len(levels) :
           /\ levels[k] # None /\ levels[k][1].compactionTarget # Absent
           /\ \A j \in 1..(k - 1) :
                levels[j] = None \/ levels[j][1].compactionTarget = Absent

\* C12: mode and compactionTarget resolve one apart from the other over the four
\* levels: the mode is that of the first level that names a mode, the
\* compactionTarget that of the first level that names a compactionTarget.
C12_IndependentFields ==
  phase = "resolved" =>
    LET levels == Levels(cfg, query)
        m == FirstWithMode(levels)
        t == FirstWithTarget(levels)
    IN /\ guardResult.mode = IF m = 0 THEN "default" ELSE levels[m][1].mode
       /\ guardResult.compactionTarget =
            IF t = 0 THEN Absent ELSE levels[t][1].compactionTarget

\* the half of C12 that the code has: the compactionTarget
TargetOfFirstLevelWithTarget ==
  phase = "resolved" =>
    LET levels == Levels(cfg, query)
        t == FirstWithTarget(levels)
    IN guardResult.compactionTarget =
         IF t = 0 THEN Absent ELSE levels[t][1].compactionTarget

----------------------------------------------------------------------------
(* KV-cache stability: the `when` predicates of overrides.                 *)
(*                                                                         *)
(* A string is a sequence of pieces; a piece is a run of blanks (" ") or a *)
(* word. A value of a list is a string or a number: [type, text], where    *)
(* text is the string, or for a number the digits String() gives.          *)
(***************************************************************************)

Text(pieces) == [type |-> "string", text |-> pieces]

Num(digits) == [type |-> "number", text |-> <<digits>>]

\* String(v)
String(v) == v.text

Blank == " "

RECURSIVE trimStart(_)
trimStart(str) ==
  IF str # <<>> /\ Head(str) = Blank THEN trimStart(Tail(str)) ELSE str

RECURSIVE trimEnd(_)
trimEnd(str) ==
  IF str # <<>> /\ str[Len(str)] = Blank THEN trimEnd(SubSeq(str, 1, Len(str) - 1)) ELSE str

\* String.prototype.trim
trim(str) == trimEnd(trimStart(str))

\* the words of the model that have upper-case letters
LowerCaseOf ==
  [w \in {"GROUP", "Telegram", "ALICE", "Alice", "G1"} |->
     CASE w = "GROUP" -> "group"
       [] w = "Telegram" -> "telegram"
       [] w \in {"ALICE", "Alice"} -> "alice"
       [] w = "G1" -> "g1"]

\* String.prototype.toLowerCase
toLowerCase(str) ==
  [k \in 1..Len(str) |-> IF str[k] \in DOMAIN LowerCaseOf THEN LowerCaseOf[str[k]] ELSE str[k]]

\* lines 108-113; v is None for undefined or null
norm(v) == IF v = None THEN <<>> ELSE toLowerCase(trim(String(v[1])))

Star == <<"*">>

\* a predicate without fields, a context without fields
EmptyWhen ==
  [chatType |-> None, channel |-> None, sender |-> None, group |-> None,
   groupChannel |-> None, senderIsOwner |-> None, isSubagent |-> None]

EmptyContext ==
  [chatType |-> None, channel |-> None, senderId |-> None, senderE164 |-> None,
   senderUsername |-> None, groupId |-> None, groupChannel |-> None,
   senderIsOwner |-> None, isSubagent |-> None]

\* a scalar or an array as the value of when.chatType and when.channel
Scalar(v) == [isArray |-> FALSE, items |-> <<v>>]

Array(vs) == [isArray |-> TRUE, items |-> vs]

\* Array.isArray(x) ? x : [x]
AsArray(x) == x.items

\* !value for a string or undefined
Falsy(value) == value = None \/ String(value[1]) = <<>>

\* mutant: the value is compared as it is
matchesStringList_RawValue(allowed, value) ==
  LET v == String(value[1])
  IN \E k \in 1..Len(allowed) :
       LET n == norm(Some(allowed[k])) IN n = Star \/ n = v

\* lines 189-195
matchesStringList(allowed, value) ==
  LET v == norm(value)
  IN \E k \in 1..Len(allowed) :
       LET n == norm(Some(allowed[k])) IN n = Star \/ n = v

\* mutant: the wildcard is tested before the value
matchesIdList_WildcardFirst(allowed, value) ==
  IF \E k \in 1..Len(allowed) : norm(Some(allowed[k])) = Star
    THEN TRUE
    ELSE IF Falsy(value)
           THEN FALSE
           ELSE \E k \in 1..Len(allowed) : norm(Some(allowed[k])) = norm(value)

\* lines 201-210
matchesIdList(allowed, value) ==
  IF Falsy(value)
    THEN FALSE
    ELSE LET v == norm(value)
         IN \E k \in 1..Len(allowed) :
              LET n == norm(Some(allowed[k])) IN n = Star \/ n = v

\* mutant: only senderId is looked at
matchesSenderIdentity_IdOnly(allowed, c) ==
  IF \E k \in 1..Len(allowed) : norm(Some(allowed[k])) = Star
    THEN TRUE
    ELSE matchesIdList(allowed, c.senderId)

\* lines 217-232
matchesSenderIdentity(allowed, c) ==
  IF \E k \in 1..Len(allowed) : norm(Some(allowed[k])) = Star
    THEN TRUE
    ELSE LET identities == SelectSeq(<<c.senderId, c.senderE164, c.senderUsername>>,
                                     LAMBDA x : ~Falsy(x))
         IN IF Len(identities) = 0
              THEN FALSE
              ELSE \E k \in 1..Len(identities) : matchesIdList(allowed, identities[k])

\* allowed.includes(value): strict equality with an element
includes(allowed, value) == \E k \in 1..Len(allowed) : allowed[k] = value

\* mutant: one matching field is enough
matchesContext_AnyField(w, c) ==
  \/ w = EmptyWhen
  \/ w.chatType # None /\ c.chatType # None /\ includes(AsArray(w.chatType[1]), c.chatType[1])
  \/ w.channel # None /\ c.channel # None /\ matchesStringList(AsArray(w.channel[1]), c.channel)
  \/ w.sender # None /\ matchesSenderIdentity(w.sender[1], c)
  \/ w.group # None /\ matchesIdList(w.group[1], c.groupId)
  \/ w.groupChannel # None /\ matchesIdList(w.groupChannel[1], c.groupChannel)
  \/ w.senderIsOwner # None /\ c.senderIsOwner = w.senderIsOwner
  \/ w.isSubagent # None /\ c.isSubagent = w.isSubagent

\* mutant: a flag the context does not carry counts as false
matchesContext_UndefinedIsFalse(w, c) ==
  LET flag(x) == IF x = None THEN Some(FALSE) ELSE x
  IN IF w.chatType # None /\ c.chatType = None THEN FALSE
     ELSE IF w.chatType # None /\ ~includes(AsArray(w.chatType[1]), c.chatType[1]) THEN FALSE
     ELSE IF w.channel # None /\ c.channel = None THEN FALSE
     ELSE IF w.channel # None /\ ~matchesStringList(AsArray(w.channel[1]), c.channel) THEN FALSE
     ELSE IF w.sender # None /\ ~matchesSenderIdentity(w.sender[1], c) THEN FALSE
     ELSE IF w.group # None /\ ~matchesIdList(w.group[1], c.groupId) THEN FALSE
     ELSE IF w.groupChannel # None /\ ~matchesIdList(w.groupChannel[1], c.groupChannel) THEN FALSE
     ELSE IF w.senderIsOwner # None /\ flag(c.senderIsOwner) # w.senderIsOwner THEN FALSE
     ELSE IF w.isSubagent # None /\ flag(c.isSubagent) # w.isSubagent THEN FALSE
     ELSE TRUE

\* lines 125-184
matchesContext(w, c) ==
  IF w.chatType # None /\ c.chatType = None THEN FALSE
  ELSE IF w.chatType # None /\ ~includes(AsArray(w.chatType[1]), c.chatType[1]) THEN FALSE
  ELSE IF w.channel # None /\ c.channel = None THEN FALSE
  ELSE IF w.channel # None /\ ~matchesStringList(AsArray(w.channel[1]), c.channel) THEN FALSE
  ELSE IF w.sender # None /\ ~matchesSenderIdentity(w.sender[1], c) THEN FALSE
  ELSE IF w.group # None /\ ~matchesIdList(w.group[1], c.groupId) THEN FALSE
  ELSE IF w.groupChannel # None /\ ~matchesIdList(w.groupChannel[1], c.groupChannel) THEN FALSE
  ELSE IF w.senderIsOwner # None /\ c.senderIsOwner # w.senderIsOwner THEN FALSE
  ELSE IF w.isSubagent # None /\ c.isSubagent # w.isSubagent THEN FALSE
  ELSE TRUE

----------------------------------------------------------------------------
(* KV-cache stability: the configuration and resolveKvCacheStability.      *)
(*                                                                         *)
(* A selector (perTurnFields, perChannelFields) is undefined, a boolean or *)
(* an array of field names.                                                *)
(***************************************************************************)

ALL_PER_TURN_FIELDS ==
  <<"has_reply_context", "has_forwarded_context", "has_thread_starter", "was_mentioned",
    "sender_id">>

ALL_PER_CHANNEL_FIELDS ==
  <<"channel", "user_identity", "reactions", "inline_buttons", "runtime_channel",
    "inbound_meta">>

Unset == [kind |-> "undefined", flag |-> FALSE, items |-> <<>>]

Bool(b) == [kind |-> "boolean", flag |-> b, items |-> <<>>]

List(names) == [kind |-> "array", flag |-> FALSE, items |-> names]

Elements(arr) == {arr[k] : k \in 1..Len(arr)}

\* mutant: the names of a list that are not fields of the group are dropped
resolveFieldSet_Validated(value, allFields) ==
  IF value.kind = "boolean" /\ value.flag
    THEN Elements(allFields)
    ELSE IF value.kind = "array"
           THEN Elements(value.items) \cap Elements(allFields)
           ELSE {}

\* lines 234-245
resolveFieldSet(value, allFields) ==
  IF value.kind = "boolean" /\ value.flag
    THEN Elements(allFields)
    ELSE IF value.kind = "array" THEN Elements(value.items) ELSE {}

Override(w, perTurn, perChannel) ==
  [when |-> w, perTurnFields |-> perTurn, perChannelFields |-> perChannel]

Stability(perTurn, perChannel, overrides) ==
  [perTurnFields |-> perTurn, perChannelFields |-> perChannel, overrides |-> overrides]

\* new Set() twice, lines 55-58
empty == [perTurnFields |-> {}, perChannelFields |-> {}]

\* mutant: the entry "provider/*" is looked up when the key has no block
StabilityAt_ProviderWildcard(models, key) ==
  IF models = None
    THEN None
    ELSE IF key \in DOMAIN models[1] /\ models[1][key].kvCacheStability # None
           THEN models[1][key].kvCacheStability
           ELSE LET slash == indexOf(key, Slash)
                    wildcard == slice(key, 0, slash) \o <<Slash, "*">>
                IN IF slash > 0 /\ wildcard \in DOMAIN models[1]
                     THEN models[1][wildcard].kvCacheStability
                     ELSE None

\* models?.[modelKey]?.kvCacheStability
StabilityAt(models, key) ==
  IF models = None \/ key \notin DOMAIN models[1]
    THEN None
    ELSE models[1][key].kvCacheStability

\* mutant: the global levels are looked at before the agent's
stabilityCandidates_DefaultsFirst(agents, agentId, modelKey) ==
  LET defaults == agents.defaults
      agentEntry == AgentEntry(agents, agentId)
      truthyKey == modelKey # None /\ modelKey # Some(<<>>)
  IN << IF truthyKey /\ defaults # None
          THEN StabilityAt(defaults[1].models, modelKey[1])
          ELSE None,
        IF defaults = None THEN None ELSE defaults[1].kvCacheStability,
        IF truthyKey /\ agentEntry # None
          THEN StabilityAt(agentEntry[1].models, modelKey[1])
          ELSE None,
        IF agentEntry = None THEN None ELSE agentEntry[1].kvCacheStability >>

\* the candidates of lines 69-78
stabilityCandidates(agents, agentId, modelKey) ==
  LET defaults == agents.defaults
      agentEntry == AgentEntry(agents, agentId)
      truthyKey == modelKey # None /\ modelKey # Some(<<>>)
  IN << IF truthyKey /\ agentEntry # None
          THEN StabilityAt(agentEntry[1].models, modelKey[1])
          ELSE None,
        IF agentEntry = None THEN None ELSE agentEntry[1].kvCacheStability,
        IF truthyKey /\ defaults # None
          THEN StabilityAt(defaults[1].models, modelKey[1])
          ELSE None,
        IF defaults = None THEN None ELSE defaults[1].kvCacheStability >>

\* mutant: the last matching override
FindOverride_Last(overrides, c) ==
  IF \A k \in 1..Len(overrides) : ~matchesContext(overrides[k].when, c)
    THEN 0
    ELSE CHOOSE k \in 1..Len(overrides) :
           /\ matchesContext(overrides[k].when, c)
           /\ \A j \in (k + 1)..Len(overrides) : ~matchesContext(overrides[j].when, c)

\* line 91: effective.overrides.find((o) => matchesContext(o.when, context)), the
\* place of it, 0 if none
FindOverride(overrides, c) ==
  IF \A k \in 1..Len(overrides) : ~matchesContext(overrides[k].when, c)
    THEN 0
    ELSE CHOOSE k \in 1..Len(overrides) :
           /\ matchesContext(overrides[k].when, c)
           /\ \A j \in 1..(k - 1) : ~matchesContext(overrides[j].when, c)

\* mutant: a selector the matching override omits is taken from the base
resolveKvCacheStability_FieldMerge(config, agentId, modelKey, c) ==
  IF config = None \/ config[1].agents = None
    THEN empty
    ELSE LET cands == stabilityCandidates(config[1].agents[1], agentId, modelKey)
             effective == FindDefined(cands)
         IN IF effective = 0
              THEN empty
              ELSE LET base == cands[effective][1]
                       match == IF base.overrides # None /\ c # None
                                  THEN FindOverride(base.overrides[1], c[1])
                                  ELSE 0
                       perTurn == IF match # 0 /\ base.overrides[1][match].perTurnFields # Unset
                                    THEN base.overrides[1][match].perTurnFields
                                    ELSE base.perTurnFields
                       perChannel == IF match # 0 /\ base.overrides[1][match].perChannelFields # Unset
                                       THEN base.overrides[1][match].perChannelFields
                                       ELSE base.perChannelFields
                   IN [perTurnFields |-> resolveFieldSet(perTurn, ALL_PER_TURN_FIELDS),
                       perChannelFields |-> resolveFieldSet(perChannel, ALL_PER_CHANNEL_FIELDS)]

\* mutant: without a context the overrides are matched against an empty context
resolveKvCacheStability_NoContextCheck(config, agentId, modelKey, c) ==
  IF config = None \/ config[1].agents = None
    THEN empty
    ELSE LET cands == stabilityCandidates(config[1].agents[1], agentId, modelKey)
             effective == FindDefined(cands)
         IN IF effective = 0
              THEN empty
              ELSE LET base == cands[effective][1]
                       match == IF base.overrides # None
                                  THEN FindOverride(base.overrides[1],
                                                    IF c = None THEN EmptyContext ELSE c[1])
                                  ELSE 0
                       perTurn == IF match # 0
                                    THEN base.overrides[1][match].perTurnFields
                                    ELSE base.perTurnFields
                       perChannel == IF match # 0
                                       THEN base.overrides[1][match].perChannelFields
                                       ELSE base.perChannelFields
                   IN [perTurnFields |-> resolveFieldSet(perTurn, ALL_PER_TURN_FIELDS),
                       perChannelFields |-> resolveFieldSet(perChannel, ALL_PER_CHANNEL_FIELDS)]

\* lines 49-102
resolveKvCacheStability(config, agentId, modelKey, c) ==
  IF config = None \/ config[1].agents = None
    THEN empty
    ELSE LET cands == stabilityCandidates(config[1].agents[1], agentId, modelKey)
             effective == FindDefined(cands)
         IN IF effective = 0
              THEN empty
              ELSE LET base == cands[effective][1]
                       match == IF base.overrides # None /\ c # None
                                  THEN FindOverride(base.overrides[1], c[1])
                                  ELSE 0
                       perTurn == IF match # 0
                                    THEN base.overrides[1][match].perTurnFields
                                    ELSE base.perTurnFields
                       perChannel == IF match # 0
                                       THEN base.overrides[1][match].perChannelFields
                                       ELSE base.perChannelFields
                   IN [perTurnFields |-> resolveFieldSet(perTurn, ALL_PER_TURN_FIELDS),
                       perChannelFields |-> resolveFieldSet(perChannel, ALL_PER_CHANNEL_FIELDS)]

\* lines 250-252
isKvCacheStabilityEnabled(resolved) ==
  Cardinality(resolved.perTurnFields) > 0 \/ Cardinality(resolved.perChannelFields) > 0

\* the plain reads of resolveKvCacheStability: lines 65-66 after the check of line
\* 61, lines 87-90 after the check of line 82
StabilityPlainReads_NoCheck(config, agentId, modelKey) ==
  IF config = None
    THEN {TRUE}
    ELSE IF config[1].agents = None
           THEN {FALSE, TRUE}
           ELSE LET cands == stabilityCandidates(config[1].agents[1], agentId, modelKey)
                    effective == FindDefined(cands)
                IN {FALSE} \cup (IF effective = 0 THEN {} ELSE {cands[effective] = None})

StabilityPlainReads(config, agentId, modelKey) ==
  IF config = None \/ config[1].agents = None
    THEN {}
    ELSE LET cands == stabilityCandidates(config[1].agents[1], agentId, modelKey)
             effective == FindDefined(cands)
         IN {config = None, config[1].agents = None}
              \cup (IF effective = 0 THEN {} ELSE {cands[effective] = None})

----------------------------------------------------------------------------
(* Configurations with kvCacheStability blocks, and the calls for them. *)

Group == Text(<<"group">>)

Direct == Text(<<"direct">>)

\* the example of the docs: off in groups
GroupOff == Override([EmptyWhen EXCEPT !.chatType = Some(Scalar(Group))], Bool(FALSE), Unset)

\* an override for every context
Anyone == Override(EmptyWhen, List(<<"was_mentioned">>), Bool(TRUE))

OverridesLists == { <<>>, <<GroupOff>>, <<GroupOff, Anyone>>, <<Anyone, GroupOff>> }

AllOn == Stability(Bool(TRUE), Bool(TRUE), None)

AllOff == Stability(Bool(FALSE), Unset, None)

WithOverrides(overrides) == Stability(Bool(TRUE), List(<<"reactions">>), Some(overrides))

PerModel == Stability(List(<<"sender_id">>), Unset, None)

Persistent == Guard("persistent", Absent)

\* the blocks of agents.defaults and of an entry of agents.list
LevelBlocks ==
  [toolResultGuard : {None, Some(Persistent)}, kvCacheStability : {None, Some(AllOn)}]
    \cup [toolResultGuard : {None},
          kvCacheStability : {Some(AllOff)} \cup {Some(WithOverrides(o)) : o \in OverridesLists}]

\* the entries of a models map
NoBlocks == [toolResultGuard |-> None, kvCacheStability |-> None]

ModelEntries ==
  { NoBlocks,
    [toolResultGuard |-> None, kvCacheStability |-> Some(PerModel)],
    [toolResultGuard |-> Some(Persistent), kvCacheStability |-> Some(PerModel)] }

Exact == ModelKey("ollama", "llama")

Wildcard == ModelKey("ollama", "*")

BothBlocks == [toolResultGuard |-> Some(Persistent), kvCacheStability |-> Some(PerModel)]

StabilityModels ==
  {None, Some(<<>>), Some([k \in {Wildcard} |-> BothBlocks]),
   Some([k \in {Exact, Wildcard} |-> IF k = Exact THEN NoBlocks ELSE BothBlocks])}
    \cup {Some([k \in {Exact} |-> e]) : e \in ModelEntries}

StabilityDefaults ==
  {[toolResultGuard |-> b.toolResultGuard, kvCacheStability |-> b.kvCacheStability,
    models |-> m] : b \in LevelBlocks, m \in StabilityModels}

StabilityMain ==
  {[id |-> "main", toolResultGuard |-> b.toolResultGuard,
    kvCacheStability |-> b.kvCacheStability, models |-> m] :
     b \in LevelBlocks, m \in StabilityModels}

StabilityOther ==
  [id |-> "other", toolResultGuard |-> Some(Guard("disabled", "0.4")),
   kvCacheStability |-> Some(AllOn), models |-> None]

StabilityLists ==
  {<<>>, <<StabilityOther>>} \cup {<<StabilityOther, e>> : e \in StabilityMain}

StabilityConfigs ==
  {None, Some([agents |-> None])} \cup
  {Some([agents |-> Some([defaults |-> d, list |-> l])]) :
     d \in {None} \cup {Some(x) : x \in StabilityDefaults},
     l \in {None} \cup {Some(x) : x \in StabilityLists}}

StabilityKeys == {None, Some(Exact), Some(ModelKey("openai", "gpt-4"))}

StabilityContexts ==
  {None, Some(EmptyContext),
   Some([EmptyContext EXCEPT !.chatType = Some(Group)]),
   Some([EmptyContext EXCEPT !.chatType = Some(Direct), !.senderIsOwner = Some(TRUE)])}

\* lines 49-102: a call of resolveKvCacheStability
ResolveStability(agentId, modelKey, c) ==
  /\ phase = "config"
  /\ query' = [agentId |-> agentId, modelKey |-> modelKey]
  /\ context' = c
  /\ threw' = (TRUE \in StabilityPlainReads(cfg, agentId, modelKey))
  /\ stability' = IF threw'
                    THEN None
                    ELSE Some(resolveKvCacheStability(cfg, agentId, modelKey, c))
  /\ phase' = "stability"
  /\ UNCHANGED <<cfg, guardResult, fell, before>>
  /\ UNCHANGED <<rewriteVars, matchVars, planVars>>

InitStability ==
  /\ RewriteInit
  /\ pidOf = [w \in Writers |-> "p1"]
  /\ cfg \in StabilityConfigs
  /\ phase = "config"
  /\ query = NoQuery
  /\ guardResult = NoResult
  /\ fell = 0
  /\ before = <<>>
  /\ StabilityOff
  /\ MatchOff
  /\ PlanOff

NextStability ==
  \/ \E agentId \in AgentIds, modelKey \in StabilityKeys : Resolve(agentId, modelKey)
  \/ \E agentId \in AgentIds, modelKey \in StabilityKeys, c \in StabilityContexts :
       ResolveStability(agentId, modelKey, c)

SpecStability == InitStability /\ [][NextStability]_vars

----------------------------------------------------------------------------
(* Claims about the stability lookup and about missing configuration. *)

\* The kvCacheStability blocks of the four levels of the hierarchy for the query, most
\* specific first: agents.list[id].models[key], agents.list[id],
\* agents.defaults.models[key], agents.defaults.
StabilityLevels(config, q) ==
  IF config = None \/ config[1].agents = None
    THEN <<None, None, None, None>>
    ELSE LET agents == config[1].agents[1]
             entry == AgentEntry(agents, q.agentId)
             AtKey(models) == IF q.modelKey = None THEN None
                              ELSE StabilityAt(models, q.modelKey[1])
         IN << IF entry = None THEN None ELSE AtKey(entry[1].models),
               IF entry = None THEN None ELSE entry[1].kvCacheStability,
               IF agents.defaults = None THEN None ELSE AtKey(agents.defaults[1].models),
               IF agents.defaults = None THEN None ELSE agents.defaults[1].kvCacheStability >>

\* a models map that has an entry, possibly without blocks, for the key
CompleteModels(models, modelKey) ==
  LET m == IF models = None THEN <<>> ELSE models[1]
  IN IF modelKey = None
       THEN Some(m)
       ELSE Some([k \in DOMAIN m \cup {modelKey[1]} |->
                    IF k \in DOMAIN m THEN m[k] ELSE NoBlocks])

\* The configuration with every missing part on the way of the query put in as a
\* part without blocks: the agents section, agents.defaults, agents.list, the entry of
\* the agent, the models maps and their entries for the model key.
Complete(config, q) ==
  LET agents == IF config = None \/ config[1].agents = None
                  THEN [defaults |-> None, list |-> None]
                  ELSE config[1].agents[1]
      d == IF agents.defaults = None
             THEN [toolResultGuard |-> None, kvCacheStability |-> None, models |-> None]
             ELSE agents.defaults[1]
      l == IF agents.list = None THEN <<>> ELSE agents.list[1]
      n == IF q.agentId = None THEN 0 ELSE FindAgent(Some(l), q.agentId[1])
      withEntry == IF q.agentId = None \/ n # 0
                     THEN l
                     ELSE Append(l, [id |-> q.agentId[1], toolResultGuard |-> None,
                                     kvCacheStability |-> None, models |-> None])
      m == IF q.agentId = None THEN 0 ELSE FindAgent(Some(withEntry), q.agentId[1])
      list == [k \in 1..Len(withEntry) |->
                 IF k = m
                   THEN [withEntry[k] EXCEPT
                           !.models = CompleteModels(withEntry[k].models, q.modelKey)]
                   ELSE withEntry[k]]
  IN Some([agents |-> Some(
        [defaults |-> Some([d EXCEPT !.models = CompleteModels(d.models, q.modelKey)]),
         list |-> Some(list)])])

\* some part on the way of the query is missing
SomethingMissing(config, q) == config # Complete(config, q)

NothingDefined(levels) == \A k \in 1..Len(levels) : levels[k] = None

\* C13: missing configuration is never an error. Neither resolver throws; each returns
\* what it returns for the configuration in which every missing part (the config, the
\* agents section, agents.defaults, agents.list, the agent's entry, a models map, the
\* entry of the model key) is present without blocks, so the remaining levels are
\* used; and when no level defines a block the guard result is mode "default" without
\* compactionTarget and the stability result is two empty sets.
C13_MissingIsNoError ==
  /\ phase \in {"resolved", "stability"} => ~threw
  /\ phase = "resolved" =>
       /\ guardResult =
            resolveToolResultGuardConfig(Complete(cfg, query), query.agentId, query.modelKey)
       /\ NothingDefined(Levels(cfg, query)) =>
            guardResult = [mode |-> "default", compactionTarget |-> Absent]
  /\ phase = "stability" =>
       /\ stability =
            Some(resolveKvCacheStability(Complete(cfg, query), query.agentId,
                                         query.modelKey, context))
       /\ NothingDefined(StabilityLevels(cfg, query)) =>
            stability = Some([perTurnFields |-> {}, perChannelFields |-> {}])

\* agents.defaults is missing and the agent's entry has no models map: the stability
\* result comes from the block of the agent's entry
C13_Witness ==
  /\ phase = "stability"
  /\ cfg # None /\ cfg[1].agents # None
  /\ cfg[1].agents[1].defaults = None
  /\ query = [agentId |-> Some("main"), modelKey |-> Some(Exact)]
  /\ AgentEntry(cfg[1].agents[1], query.agentId) # None
  /\ AgentEntry(cfg[1].agents[1], query.agentId)[1].models = None
  /\ AgentEntry(cfg[1].agents[1], query.agentId)[1].kvCacheStability = Some(AllOn)
  /\ stability = Some([perTurnFields |-> Elements(ALL_PER_TURN_FIELDS),
                       perChannelFields |-> Elements(ALL_PER_CHANNEL_FIELDS)])

\* no config at all: the guard is "default"
C13_NoConfig ==
  /\ phase = "resolved"
  /\ cfg = None
  /\ guardResult = [mode |-> "default", compactionTarget |-> Absent]

\* the configuration whose only block is `block`, at agents.defaults
OnlyDefaults(block) ==
  Some([agents |-> Some(
    [defaults |-> Some([toolResultGuard |-> None, kvCacheStability |-> Some(block),
                        models |-> None]),
     list |-> None])])

\* C14: the effective stability config is the first defined kvCacheStability block in
\* the order agent+model, agent, defaults+model, defaults, and every less specific block
\* is ignored: the result is what that block alone gives for the context. When no level
\* defines a block the result is two empty sets, and isKvCacheStabilityEnabled is false.
C14_FirstDefinedBlock ==
  phase = "stability" =>
    LET levels == StabilityLevels(cfg, query)
        k == FirstLevel(levels)
    IN IF k = 0
         THEN /\ stability = Some([perTurnFields |-> {}, perChannelFields |-> {}])
              /\ ~isKvCacheStabilityEnabled(stability[1])
         ELSE stability =
                Some(resolveKvCacheStability(OnlyDefaults(levels[k][1]), None, None, context))

\* the agent's block turns everything off, the block of agents.defaults everything on:
\* the result is off
C14_Witness ==
  /\ phase = "stability"
  /\ query.agentId = Some("main")
  /\ StabilityLevels(cfg, query)[1] = None
  /\ StabilityLevels(cfg, query)[2] = Some(AllOff)
  /\ StabilityLevels(cfg, query)[4] = Some(AllOn)
  /\ stability = Some(empty)

\* no block at any level, in a configuration that has agents.defaults and the agent
C14_Off ==
  /\ phase = "stability"
  /\ cfg # None /\ cfg[1].agents # None /\ cfg[1].agents[1].defaults # None
  /\ query.agentId = Some("main")
  /\ AgentEntry(cfg[1].agents[1], query.agentId) # None
  /\ FirstLevel(StabilityLevels(cfg, query)) = 0
  /\ ~isKvCacheStabilityEnabled(stability[1])

\* the sets that a pair of selectors stands for
FieldSets(selectors) ==
  [perTurnFields |-> resolveFieldSet(selectors.perTurnFields, ALL_PER_TURN_FIELDS),
   perChannelFields |-> resolveFieldSet(selectors.perChannelFields, ALL_PER_CHANNEL_FIELDS)]

\* the effective block of the latest call, when there is one
EffectiveBlock == StabilityLevels(cfg, query)[FirstLevel(StabilityLevels(cfg, query))][1]

\* C15: overrides are evaluated in authored order and the first one whose `when`
\* matches the context gives both selectors: neither a later matching override nor the
\* base is merged in. When no override matches (or there are no overrides, or the call
\* has no context) the base selectors of the effective block are used.
C15_FirstMatchingOverride ==
  (phase = "stability" /\ FirstLevel(StabilityLevels(cfg, query)) # 0) =>
    LET overrides == IF EffectiveBlock.overrides = None \/ context = None
                       THEN <<>>
                       ELSE EffectiveBlock.overrides[1]
        Matching(k) == matchesContext(overrides[k].when, context[1])
    IN /\ \A k \in 1..Len(overrides) :
            (Matching(k) /\ \A j \in 1..(k - 1) : ~Matching(j)) =>
              stability = Some(FieldSets(overrides[k]))
       /\ (\A k \in 1..Len(overrides) : ~Matching(k)) =>
            stability = Some(FieldSets(EffectiveBlock))

\* overrides "off in groups" then "anyone", in a group: the first override alone
\* decides, the per-channel set is empty although the second override and the base
\* name per-channel fields
C15_Witness ==
  /\ phase = "stability"
  /\ FirstLevel(StabilityLevels(cfg, query)) # 0
  /\ EffectiveBlock = WithOverrides(<<GroupOff, Anyone>>)
  /\ context = Some([EmptyContext EXCEPT !.chatType = Some(Group)])
  /\ stability = Some([perTurnFields |-> {}, perChannelFields |-> {}])

\* the override "off in groups" in a direct chat: the base is used
C15_Direct ==
  /\ phase = "stability"
  /\ FirstLevel(StabilityLevels(cfg, query)) # 0
  /\ EffectiveBlock = WithOverrides(<<GroupOff>>)
  /\ context # None /\ context[1].chatType = Some(Direct)
  /\ stability = Some([perTurnFields |-> Elements(ALL_PER_TURN_FIELDS),
                       perChannelFields |-> {"reactions"}])

----------------------------------------------------------------------------
(* Predicates and contexts, and the calls of matchesContext for them. *)

ChatTypePredicates ==
  { Scalar(Group), Scalar(Text(<<"GROUP">>)), Scalar(Text(Star)), Array(<<Direct, Group>>) }

ChannelPredicates ==
  { Scalar(Text(<<"Telegram", Blank>>)), Scalar(Text(<<Blank, "*">>)),
    Array(<<Text(<<"discord">>), Text(<<"telegram">>)>>) }

SenderPredicates ==
  { <<>>, <<Text(Star)>>, <<Text(<<Blank, "ALICE">>)>>, <<Num("7"), Text(<<"+1">>)>> }

GroupPredicates == { <<Text(<<"*", Blank>>)>>, <<Text(<<"G1">>)>>, <<Num("7")>> }

GroupChannelPredicates == { <<Text(Star)>>, <<Text(<<"c1">>)>> }

Optional(S) == {None} \cup {Some(x) : x \in S}

WhenFields ==
  {"chatType", "channel", "sender", "group", "groupChannel", "senderIsOwner", "isSubagent"}

Whens ==
  { w \in [chatType : Optional(ChatTypePredicates), channel : Optional(ChannelPredicates),
           sender : Optional(SenderPredicates), group : Optional(GroupPredicates),
           groupChannel : Optional(GroupChannelPredicates),
           senderIsOwner : Optional(BOOLEAN), isSubagent : Optional({TRUE})] :
      Cardinality({f \in WhenFields : w[f] # None}) <= MaxWhenFields }

ContextFields ==
  {"chatType", "channel", "senderId", "senderE164", "senderUsername", "groupId",
   "groupChannel", "senderIsOwner", "isSubagent"}

Contexts ==
  { c \in [chatType : Optional({Group, Direct}),
           channel : Optional({Text(<<"telegram">>), Text(<<Blank, "Telegram">>)}),
           senderId : Optional({Text(<<>>), Text(<<"7">>)}),
           senderE164 : Optional({Text(<<"+1">>)}),
           senderUsername : Optional({Text(<<"Alice", Blank>>)}),
           groupId : Optional({Text(<<>>), Text(<<Blank>>), Text(<<"g1">>), Text(<<"7">>)}),
           groupChannel : Optional({Text(<<"c1">>)}),
           senderIsOwner : Optional(BOOLEAN), isSubagent : Optional(BOOLEAN)] :
      Cardinality({f \in ContextFields : c[f] # None}) <= MaxContextFields }

\* lines 125-184: a call of matchesContext
Match(c) ==
  /\ matched = None
  /\ ctx' = c
  /\ matched' = Some(matchesContext(when, c))
  /\ UNCHANGED when
  /\ UNCHANGED <<rewriteVars, guardVars, stabilityVars, planVars>>

InitMatch ==
  /\ RewriteInit
  /\ pidOf = [w \in Writers |-> "p1"]
  /\ GuardOff
  /\ StabilityOff
  /\ when \in Whens
  /\ ctx = None
  /\ matched = None
  /\ PlanOff

NextMatch == \E c \in Contexts : Match(c)

SpecMatch == InitMatch /\ [][NextMatch]_vars

----------------------------------------------------------------------------
(* Claims about matchesContext. *)

\* what one field of the predicate asks of the context (lines 127-181, field by field)
FieldMatches(f, w, c) ==
  CASE f = "chatType" -> c.chatType # None /\ includes(AsArray(w.chatType[1]), c.chatType[1])
    [] f = "channel" -> c.channel # None /\ matchesStringList(AsArray(w.channel[1]), c.channel)
    [] f = "sender" -> matchesSenderIdentity(w.sender[1], c)
    [] f = "group" -> matchesIdList(w.group[1], c.groupId)
    [] f = "groupChannel" -> matchesIdList(w.groupChannel[1], c.groupChannel)
    [] f = "senderIsOwner" -> c.senderIsOwner = w.senderIsOwner
    [] f = "isSubagent" -> c.isSubagent = w.isSubagent

Present(w) == {f \in WhenFields : w[f] # None}

\* C16: matchesContext is a conjunction. The predicate matches the context if and only
\* if every field present in the predicate matches; an absent field asks nothing, so
\* the predicate without fields matches every context.
C16_Conjunction ==
  matched # None =>
    /\ matched[1] = (\A f \in Present(when) : FieldMatches(f, when, ctx))
    /\ Present(when) = {} => matched[1]

\* two fields present, one matches and the other does not: no match
C16_Witness ==
  /\ matched = Some(FALSE)
  /\ Present(when) = {"chatType", "senderIsOwner"}
  /\ FieldMatches("chatType", when, ctx)
  /\ ~FieldMatches("senderIsOwner", when, ctx)

\* the predicate without fields matches a context with fields
C16_EmptyPredicate ==
  /\ matched = Some(TRUE)
  /\ when = EmptyWhen
  /\ Cardinality({f \in ContextFields : ctx[f] # None}) = MaxContextFields

\* two fields present and both match
C16_BothMatch ==
  /\ matched = Some(TRUE)
  /\ Present(when) = {"channel", "group"}

\* the predicate has the field f and no other
Only(f) == Present(when) = {f}

\* some entry is the wildcard, some entry equals the value, both after normalization
HasWildcard(entries) == \E k \in 1..Len(entries) : norm(Some(entries[k])) = Star

HasEqual(entries, value) == \E k \in 1..Len(entries) : norm(Some(entries[k])) = norm(value)

\* C17: a chatType predicate (scalar or list) matches when the context's chatType
\* equals some entry after trimming and lower-casing, or when some entry is `*`; it
\* fails when the context has no chatType.
C17_ChatTypeNormalized ==
  (matched # None /\ Only("chatType")) =>
    matched[1] = /\ ctx.chatType # None
                 /\ \/ HasWildcard(AsArray(when.chatType[1]))
                    \/ HasEqual(AsArray(when.chatType[1]), ctx.chatType)

\* what the code does for chatType: strict equality with an entry, no wildcard
ChatTypeIsExact ==
  (matched # None /\ Only("chatType")) =>
    matched[1] = /\ ctx.chatType # None
                 /\ \E k \in 1..Len(AsArray(when.chatType[1])) :
                      AsArray(when.chatType[1])[k] = ctx.chatType[1]

\* the part of C17 that holds: without a chatType in the context there is no match
ChatTypeNeedsContext ==
  (matched # None /\ when.chatType # None /\ ctx.chatType = None) => matched = Some(FALSE)

\* C18: a channel predicate (scalar or list) matches when the context's channel equals
\* some entry after trimming and lower-casing both sides, or when some entry is `*`;
\* when the context has no channel it does not match, not even against `*`.
C18_ChannelNormalized ==
  (matched # None /\ Only("channel")) =>
    matched[1] = /\ ctx.channel # None
                 /\ \/ HasWildcard(AsArray(when.channel[1]))
                    \/ HasEqual(AsArray(when.channel[1]), ctx.channel)

\* "Telegram " in the predicate, " Telegram" in the context: a match
C18_Witness ==
  /\ matched = Some(TRUE)
  /\ Only("channel")
  /\ when.channel = Some(Scalar(Text(<<"Telegram", Blank>>)))
  /\ ctx.channel = Some(Text(<<Blank, "Telegram">>))

\* the wildcard, and a context without channel: no match
C18_NoChannel ==
  /\ matched = Some(FALSE)
  /\ Only("channel")
  /\ HasWildcard(AsArray(when.channel[1]))
  /\ ctx.channel = None

\* the second entry of a list matches
C18_SecondEntry ==
  /\ matched = Some(TRUE)
  /\ Only("channel")
  /\ when.channel = Some(Array(<<Text(<<"discord">>), Text(<<"telegram">>)>>))

\* the identity-list fields of the predicate that have a wildcard entry
Wildcarded(w) == {f \in Present(w) \cap {"sender", "group", "groupChannel"} : HasWildcard(w[f][1])}

\* C19: in `group` and `groupChannel` the wildcard matches every present, non-empty
\* value of the context and never an absent or empty one; in `sender` the wildcard
\* matches even when none of senderId, senderE164, senderUsername is populated. So a
\* predicate all of whose fields are wildcarded identity lists matches exactly when
\* the context has a non-empty value for each wildcarded `group`/`groupChannel`.
C19_WildcardNeedsValue ==
  (matched # None /\ Present(when) # {} /\ Present(when) = Wildcarded(when)) =>
    matched[1] = /\ "group" \in Present(when) => ~Falsy(ctx.groupId)
                 /\ "groupChannel" \in Present(when) => ~Falsy(ctx.groupChannel)

\* sender and group wildcards, no sender identity and a group id: a match
C19_Witness ==
  /\ matched = Some(TRUE)
  /\ Wildcarded(when) = {"sender", "group"}
  /\ ctx.senderId = None /\ ctx.senderE164 = None /\ ctx.senderUsername = None
  /\ ctx.groupId # None

\* the group wildcard and an empty group id: no match
C19_EmptyGroup ==
  /\ matched = Some(FALSE)
  /\ Only("group") /\ Wildcarded(when) = {"group"}
  /\ ctx.groupId = Some(Text(<<>>))

\* the groupChannel wildcard and no groupChannel: no match
C19_NoGroupChannel ==
  /\ matched = Some(FALSE)
  /\ Only("groupChannel") /\ Wildcarded(when) = {"groupChannel"}
  /\ ctx.groupChannel = None

\* the sender wildcard alone, an empty senderId and nothing else: a match
C19_UnknownSender ==
  /\ matched = Some(TRUE)
  /\ Only("sender") /\ Wildcarded(when) = {"sender"}
  /\ ctx.senderId = Some(Text(<<>>)) /\ ctx.senderE164 = None /\ ctx.senderUsername = None

\* C20: a sender predicate without wildcard matches if and only if one of senderId,
\* senderE164, senderUsername is populated and equals some entry after trimming,
\* lower-casing and stringification (a number compares as its digits); with none of
\* the three populated it does not match.
C20_SenderIdentity ==
  (matched # None /\ Only("sender") /\ ~HasWildcard(when.sender[1])) =>
    matched[1] = \E identity \in {ctx.senderId, ctx.senderE164, ctx.senderUsername} :
                   ~Falsy(identity) /\ HasEqual(when.sender[1], identity)

\* the number 7 in the predicate, senderId "7": a match
C20_Witness ==
  /\ matched = Some(TRUE)
  /\ Only("sender")
  /\ when.sender = Some(<<Num("7"), Text(<<"+1">>)>>)
  /\ ctx.senderId = Some(Text(<<"7">>))
  /\ ctx.senderE164 = None

\* " ALICE" in the predicate, only senderUsername "Alice ": a match
C20_Username ==
  /\ matched = Some(TRUE)
  /\ Only("sender")
  /\ when.sender = Some(<<Text(<<Blank, "ALICE">>)>>)
  /\ ctx.senderId = None /\ ctx.senderE164 = None

\* no identity populated: no match
C20_NoIdentity ==
  /\ matched = Some(FALSE)
  /\ Only("sender") /\ ~HasWildcard(when.sender[1]) /\ when.sender # Some(<<>>)
  /\ Falsy(ctx.senderId) /\ ctx.senderE164 = None /\ ctx.senderUsername = None

\* C21: the boolean fields senderIsOwner and isSubagent match by exact equality only.
\* A predicate value true or false never matches a context in which the flag is
\* undefined; a predicate that has only the flag matches exactly the contexts that
\* carry the same value.
C21_BooleanExact ==
  matched # None =>
    /\ (when.senderIsOwner # None /\ ctx.senderIsOwner = None) => matched = Some(FALSE)
    /\ (when.isSubagent # None /\ ctx.isSubagent = None) => matched = Some(FALSE)
    /\ Only("senderIsOwner") =>
         matched[1] = (ctx.senderIsOwner # None /\ ctx.senderIsOwner[1] = when.senderIsOwner[1])
    /\ Only("isSubagent") =>
         matched[1] = (ctx.isSubagent # None /\ ctx.isSubagent[1] = when.isSubagent[1])

\* senderIsOwner: false in the predicate and no flag in the context: no match
C21_Witness ==
  /\ matched = Some(FALSE)
  /\ Only("senderIsOwner")
  /\ when.senderIsOwner = Some(FALSE)
  /\ ctx.senderIsOwner = None

\* isSubagent: true in the predicate and no flag in the context: no match
C21_NoSubagentFlag ==
  /\ matched = Some(FALSE)
  /\ Only("isSubagent")
  /\ when.isSubagent = Some(TRUE)
  /\ ctx.isSubagent = None

\* senderIsOwner: false in the predicate and false in the context: a match
C21_SameFlag ==
  /\ matched = Some(TRUE)
  /\ Only("senderIsOwner")
  /\ when.senderIsOwner = Some(FALSE)
  /\ ctx.senderIsOwner = Some(FALSE)

----------------------------------------------------------------------------
(* The compaction planner. Ratios are in percent; a candidate is            *)
(* [id, frees, compacted]: the tool-call id (its place in the session,      *)
(* oldest first), the estimated size that compacting it frees, and whether  *)
(* it is compacted already. The input is [usage, window, compactionTarget,  *)
(* candidates].                                                             *)
(***************************************************************************)

\* compaction fires at 75% context utilization
TriggerRatio == 75

\* the target ratio: compactionTarget, or the trigger ratio when it is absent
TargetRatio(input) ==
  IF input.compactionTarget = None THEN TriggerRatio ELSE input.compactionTarget[1]

\* projected usage after freeing `freed` is at or below target x window
AtTarget(input, freed) == (input.usage - freed) * 100 <= TargetRatio(input) * input.window

\* mutant: the walk does not stop at the target
RECURSIVE walkAll(_, _, _, _)
walkAll(input, k, freed, ids) ==
  IF k > Len(input.candidates)
    THEN [ids |-> ids, reached |-> AtTarget(input, freed)]
    ELSE IF input.candidates[k].compacted
           THEN walkAll(input, k + 1, freed, ids)
           ELSE walkAll(input, k + 1, freed + input.candidates[k].frees,
                        Append(ids, input.candidates[k].id))

planCompaction_Everything(input) == walkAll(input, 1, 0, <<>>)

\* the walk from candidate k on, oldest first, with `freed` accumulated and `ids`
\* chosen so far
RECURSIVE walk(_, _, _, _)
walk(input, k, freed, ids) ==
  IF AtTarget(input, freed)
    THEN [ids |-> ids, reached |-> TRUE]
    ELSE IF k > Len(input.candidates)
           THEN [ids |-> ids, reached |-> FALSE]
           ELSE IF input.candidates[k].compacted
                  THEN walk(input, k + 1, freed, ids)
                  ELSE walk(input, k + 1, freed + input.candidates[k].frees,
                            Append(ids, input.candidates[k].id))

\* the plan: the ids to compact, oldest first, and whether the target is reached
planCompaction(input) == walk(input, 1, 0, <<>>)

\* the candidate lists: tool results in session order, the id being the place
CandidateLists ==
  UNION {[1..n -> [frees : {2, 5}, compacted : BOOLEAN]] : n \in 0..MaxCandidates}

WithIds(list) ==
  [k \in 1..Len(list) |->
     [id |-> k, frees |-> list[k].frees, compacted |-> list[k].compacted]]

\* the planner is called when usage has crossed the trigger ratio
PlanInputs ==
  {[usage |-> u, window |-> Window, compactionTarget |-> t, candidates |-> WithIds(l)] :
     u \in {x \in 0..Window : x * 100 > TriggerRatio * Window},
     t \in {None, Some(40), Some(50), Some(60)},
     l \in CandidateLists}

\* a call of the planner
Plan ==
  /\ planResult = None
  /\ planResult' = Some(planCompaction(planInput[1]))
  /\ UNCHANGED planInput
  /\ UNCHANGED <<rewriteVars, guardVars, stabilityVars, matchVars>>

InitPlan ==
  /\ RewriteInit
  /\ pidOf = [w \in Writers |-> "p1"]
  /\ GuardOff
  /\ StabilityOff
  /\ MatchOff
  /\ planInput \in {Some(i) : i \in PlanInputs}
  /\ planResult = None

NextPlan == Plan

SpecPlan == InitPlan /\ [][NextPlan]_vars

\* the eligible candidates (not yet compacted), oldest first
Eligible(input) == SelectSeq(input.candidates, LAMBDA c : ~c.compacted)

RECURSIVE Freed(_, _)
Freed(eligible, m) == IF m = 0 THEN 0 ELSE Freed(eligible, m - 1) + eligible[m].frees

\* C22: the plan names tool-call ids oldest first, skips already-compacted results,
\* and is the shortest oldest-first prefix of the eligible candidates whose
\* accumulated freed size brings projected usage to at or below target x window, the
\* target being compactionTarget or, when that is absent, the trigger ratio; when
\* even all eligible candidates do not reach the target, the plan is all of them,
\* flagged as not reaching the target.
C22_ShortestPrefix ==
  planResult # None =>
    LET input == planInput[1]
        eligible == Eligible(input)
        enough == {m \in 0..Len(eligible) : AtTarget(input, Freed(eligible, m))}
        plan == planResult[1]
    IN /\ \E m \in 0..Len(eligible) : plan.ids = [k \in 1..m |-> eligible[k].id]
       /\ plan.reached = (enough # {})
       /\ enough # {} => /\ Len(plan.ids) \in enough
                         /\ \A m \in enough : Len(plan.ids) <= m
       /\ enough = {} => Len(plan.ids) = Len(eligible)

\* an already-compacted result is skipped and the walk stops before the newest
\* eligible result
C22_Witness ==
  /\ planResult # None
  /\ planInput[1].compactionTarget = Some(60)
  /\ Len(planInput[1].candidates) = 3
  /\ planInput[1].candidates[1].compacted
  /\ ~planInput[1].candidates[2].compacted
  /\ ~planInput[1].candidates[3].compacted
  /\ planResult[1] = [ids |-> <<2>>, reached |-> TRUE]

\* not enough to reach the target: everything eligible, flagged
C22_NotReached ==
  /\ planResult # None
  /\ Len(Eligible(planInput[1])) = 2
  /\ Len(planResult[1].ids) = 2
  /\ ~planResult[1].reached

\* no compactionTarget: the trigger ratio is the target
C22_DefaultTarget ==
  /\ planResult # None
  /\ planInput[1].compactionTarget = None
  /\ planInput[1].usage = 17
  /\ Len(planResult[1].ids) = 1
  /\ planResult[1].reached

----------------------------------------------------------------------------
(* The provider wildcard and the shape of the model key.                   *)
(***************************************************************************)

\* the number of "/" separators of a model key
Slashes(key) == Cardinality({k \in 1..Len(key) : key[k] = Slash})

\* what a models map gives when only the entry with the very key is looked up
ExactOnly(models, modelKey) ==
  IF models = None \/ modelKey = None THEN None
  ELSE IF modelKey[1] \in DOMAIN models[1] THEN models[1][modelKey[1]].toolResultGuard
  ELSE None

\* the four levels, the two with a models map read by the exact key only
LevelsExactOnly(config, q) ==
  IF config = None \/ config[1].agents = None
    THEN <<None, None, None, None>>
    ELSE LET agents == config[1].agents[1]
             entry == AgentEntry(agents, q.agentId)
         IN << IF entry = None THEN None ELSE ExactOnly(entry[1].models, q.modelKey),
               IF entry = None THEN None ELSE entry[1].toolResultGuard,
               IF agents.defaults = None
                 THEN None
                 ELSE ExactOnly(agents.defaults[1].models, q.modelKey),
               IF agents.defaults = None THEN None ELSE agents.defaults[1].toolResultGuard >>

\* C23 as stated: for a model key with no "/" or with more than one "/", no wildcard
\* entry supplies a value: the resolved mode is the one the levels give when their
\* models maps are read by the exact key only.
C23_ExactlyOneSlash ==
  (phase = "resolved" /\ query.modelKey # None /\ Slashes(query.modelKey[1]) # 1) =>
    guardResult.mode = MostSpecificMode(LevelsExactOnly(cfg, query))

\* C23, amended: the "provider/*" fallback is tried whenever the model key has a "/"
\* after a provider, the provider being what stands before the first "/": for a key
\* with no "/" only the exact key is looked up and no wildcard entry supplies a
\* value, and a key with more than one "/" falls back to the entry of its provider
\* as a key with one "/" does.
C23_WildcardNeedsSlash ==
  (phase = "resolved" /\ query.modelKey # None) =>
    /\ Slashes(query.modelKey[1]) = 0 =>
         guardResult.mode = MostSpecificMode(LevelsExactOnly(cfg, query))
    /\ (Slashes(query.modelKey[1]) >= 1 /\ ProviderOf(query.modelKey[1]) # <<>>) =>
         guardResult.mode = MostSpecificMode(LevelsExactFirst(cfg, query))

\* "ollama/library/llama" is asked for, the only block anywhere is the one of
\* "ollama/*" in the global models map, and its mode is the resolved one
C23_Witness ==
  /\ phase = "resolved"
  /\ query = [agentId |-> None,
              modelKey |-> Some(<<"ollama", Slash, "library", Slash, "llama">>)]
  /\ LevelsExactOnly(cfg, query) = <<None, None, None, None>>
  /\ cfg # None /\ cfg[1].agents # None /\ cfg[1].agents[1].defaults # None
  /\ cfg[1].agents[1].defaults[1].models # None
  /\ ModelKey("ollama", "*") \in DOMAIN cfg[1].agents[1].defaults[1].models[1]
  /\ cfg[1].agents[1].defaults[1].models[1][ModelKey("ollama", "*")].toolResultGuard
       = Some(Guard("persistent", Absent))
  /\ guardResult.mode = "persistent"

\* "llama", a key with no "/", is asked for where "ollama/*" and "ollama/llama" both
\* have a block and nothing else has: the mode is "default"
C23_NoSlash ==
  /\ phase = "resolved"
  /\ query = [agentId |-> None, modelKey |-> Some(<<"llama">>)]
  /\ cfg # None /\ cfg[1].agents # None /\ cfg[1].agents[1].defaults # None
  /\ cfg[1].agents[1].defaults[1].toolResultGuard = None
  /\ cfg[1].agents[1].defaults[1].models # None
  /\ DOMAIN cfg[1].agents[1].defaults[1].models[1] = MapKeys
  /\ guardResult.mode = "default"

----------------------------------------------------------------------------
(* The stability lookup and the provider wildcard.                         *)
(***************************************************************************)

\* the kvCacheStability block of the entry with the very key, if there is one
KvExact(models, modelKey) ==
  IF models = None \/ modelKey = None \/ modelKey[1] \notin DOMAIN models[1]
    THEN None
    ELSE models[1][modelKey[1]].kvCacheStability

\* the kvCacheStability block of the entry "provider/*" for the provider of the key,
\* when the map has no entry with the very key
KvProvider(models, modelKey) ==
  IF models = None \/ modelKey = None \/ modelKey[1] \in DOMAIN models[1]
       \/ ProviderOf(modelKey[1]) = <<>>
       \/ (ProviderOf(modelKey[1]) \o <<Slash, "*">>) \notin DOMAIN models[1]
    THEN None
    ELSE models[1][ProviderOf(modelKey[1]) \o <<Slash, "*">>].kvCacheStability

\* the kvCacheStability blocks of the four levels, the two with a models map read by
\* the exact key only
KvLevelsExactOnly(config, q) ==
  IF config = None \/ config[1].agents = None
    THEN <<None, None, None, None>>
    ELSE LET agents == config[1].agents[1]
             entry == AgentEntry(agents, q.agentId)
         IN << IF entry = None THEN None ELSE KvExact(entry[1].models, q.modelKey),
               IF entry = None THEN None ELSE entry[1].kvCacheStability,
               IF agents.defaults = None
                 THEN None
                 ELSE KvExact(agents.defaults[1].models, q.modelKey),
               IF agents.defaults = None THEN None ELSE agents.defaults[1].kvCacheStability >>

\* the same, a models map without an entry for the key giving the block of its
\* "provider/*" entry
KvLevelsExactThenProvider(config, q) ==
  IF config = None \/ config[1].agents = None
    THEN <<None, None, None, None>>
    ELSE LET agents == config[1].agents[1]
             entry == AgentEntry(agents, q.agentId)
             At(models) == IF KvExact(models, q.modelKey) # None
                             THEN KvExact(models, q.modelKey)
                             ELSE KvProvider(models, q.modelKey)
         IN << IF entry = None THEN None ELSE At(entry[1].models),
               IF entry = None THEN None ELSE entry[1].kvCacheStability,
               IF agents.defaults = None THEN None ELSE At(agents.defaults[1].models),
               IF agents.defaults = None THEN None ELSE agents.defaults[1].kvCacheStability >>

\* what the first defined block of the levels gives for the context of the call
FromLevels(levels) ==
  IF FirstLevel(levels) = 0
    THEN Some(empty)
    ELSE Some(resolveKvCacheStability(OnlyDefaults(levels[FirstLevel(levels)][1]),
                                      None, None, context))

\* C24 as stated: the stability lookup reads the two levels with a models map exact
\* key first, then "provider/*": where a models map has a "provider/*" entry with a
\* kvCacheStability block and no entry for the model key, that block is the candidate
\* of its level, and the result is what the first defined candidate gives.
C24_SameAlgorithm ==
  phase = "stability" => stability = FromLevels(KvLevelsExactThenProvider(cfg, query))

\* C24, amended: resolveKvCacheStability goes through the same four levels in the
\* same order as the guard lookup, but reads the two levels with a models map by the
\* exact model key only: where a models map has a "provider/*" entry with a
\* kvCacheStability block and no entry for the model key, that block is not a
\* candidate and the level gives nothing.
C24_ExactKeyOnly ==
  (/\ phase = "stability"
   /\ KvLevelsExactThenProvider(cfg, query) # KvLevelsExactOnly(cfg, query)) =>
    stability = FromLevels(KvLevelsExactOnly(cfg, query))

\* "ollama/llama" is asked for, the global models map has only "ollama/*", with a
\* block that names sender_id, and agents.defaults turns everything on: the result
\* is everything, not sender_id
C24_Witness ==
  /\ phase = "stability"
  /\ query = [agentId |-> None, modelKey |-> Some(Exact)]
  /\ KvLevelsExactThenProvider(cfg, query) = <<None, None, Some(PerModel), Some(AllOn)>>
  /\ KvLevelsExactOnly(cfg, query) = <<None, None, None, Some(AllOn)>>
  /\ stability = Some([perTurnFields |-> Elements(ALL_PER_TURN_FIELDS),
                       perChannelFields |-> Elements(ALL_PER_CHANNEL_FIELDS)])

\* the only block anywhere is the one of "ollama/*": stability is off
C24_OnlyWildcard ==
  /\ phase = "stability"
  /\ query.modelKey = Some(Exact)
  /\ KvLevelsExactThenProvider(cfg, query) = <<None, None, Some(PerModel), None>>
  /\ stability = Some(empty)
  /\ ~isKvCacheStabilityEnabled(stability[1])

----------------------------------------------------------------------------
(* What a rewrite leaves as it was.                                        *)
(***************************************************************************)

\* the session header as an editor left it: hand-formatted, in a CRLF file
SpacedHeader ==
  Json("session", FALSE, Absent, Absent, Absent, Undefined, Absent, "spaced", "CRLF")

\* C25 as stated: the rename installs, for every line read, the very bytes read
\* (spelling and line terminator included), but for the content and details of the
\* entries that were matched and rewritten.
C25_ByteIdentical ==
  [][\A w \in Writers :
       IsRename(w) =>
         /\ Len(SessionData') = Len(inv[w].lines)
         /\ \A i \in 1..Len(inv[w].lines) :
              LET a == inv[w].lines[i]
                  b == SessionData'[i]
              IN IF a.kind = "json" /\ Rewritten(a, inv[w].ids, inv[w].placeholder)
                   THEN b = [a EXCEPT !.content = b.content, !.details = b.details]
                   ELSE b = a]_vars

\* C25, amended: whenever persistToolResultCompaction rewrites the session file,
\* everything other than the content/details fields of the matched tool-result
\* entries keeps its value: blank lines and lines that fail to parse are written
\* back with the text they were read with, every line that parses (matched or not)
\* is written back as JSON.stringify of its parsed value, so in JSON.stringify's
\* spelling and not necessarily in the bytes read, and every line terminator is
\* written as "\n", a "\r\n" included.
C25_ValuesKept ==
  [][\A w \in Writers :
       IsRename(w) =>
         /\ Len(SessionData') = Len(inv[w].lines)
         /\ \A i \in 1..Len(inv[w].lines) :
              LET a == inv[w].lines[i]
                  b == SessionData'[i]
              IN IF a.kind # "json"
                   THEN b = [a EXCEPT !.eol = "LF"]
                   ELSE IF Rewritten(a, inv[w].ids, inv[w].placeholder)
                          THEN b = [a EXCEPT !.content = b.content, !.details = b.details,
                                             !.fmt = "canon", !.eol = "LF"]
                          ELSE b = [a EXCEPT !.fmt = "canon", !.eol = "LF"]]_vars

\* a rewrite of a file whose first line is the hand-formatted header of a CRLF file:
\* the header is in the file in JSON.stringify's spelling, ended by "\n"
C25_Witness ==
  /\ inv["w1"].pc = "done"
  /\ inv["w1"].result.persisted
  /\ Len(SessionData) = 2
  /\ SpacedHeader \in Alphabet
  /\ SessionData[1] = [SpacedHeader EXCEPT !.fmt = "canon", !.eol = "LF"]
  /\ SessionData[2].content = Str(PH)

\* a rewrite of a file with a line that does not parse: the line is as it was
C25_Garbage ==
  /\ inv["w1"].pc = "done"
  /\ inv["w1"].result.persisted
  /\ ~appended
  /\ Len(SessionData) = 2
  /\ SessionData[1].content = Str(PH)
  /\ SessionData[2] = Raw("garbage", "LF")

----------------------------------------------------------------------------
(* Overrides: no merge of fields, and no override without a context.       *)
(***************************************************************************)

\* the overrides of the effective block of the latest call, <<>> if it has none
EffectiveOverrides ==
  IF EffectiveBlock.overrides = None THEN <<>> ELSE EffectiveBlock.overrides[1]

\* the override at place k is the first that matches the context of the call
FirstMatch(k) ==
  /\ matchesContext(EffectiveOverrides[k].when, context[1])
  /\ \A j \in 1..(k - 1) : ~matchesContext(EffectiveOverrides[j].when, context[1])

\* what a selector that is given stands for: true for every field of the group,
\* false for none, a list for the names it lists
Given(selector, allFields) ==
  CASE selector.kind = "boolean" /\ selector.flag -> Elements(allFields)
    [] selector.kind = "boolean" /\ ~selector.flag -> {}
    [] selector.kind = "array" -> Elements(selector.items)

\* C26: when an override matches, both selectors are the override's own: a selector
\* that the override omits gives the empty set, whatever the base has for that
\* group, and a selector that it gives stands for itself.
C26_NoFieldMerge ==
  (phase = "stability" /\ FirstLevel(StabilityLevels(cfg, query)) # 0 /\ context # None) =>
    \A k \in 1..Len(EffectiveOverrides) :
      FirstMatch(k) =>
        LET o == EffectiveOverrides[k]
        IN /\ stability # None
           /\ stability[1].perTurnFields =
                IF o.perTurnFields = Unset THEN {}
                ELSE Given(o.perTurnFields, ALL_PER_TURN_FIELDS)
           /\ stability[1].perChannelFields =
                IF o.perChannelFields = Unset THEN {}
                ELSE Given(o.perChannelFields, ALL_PER_CHANNEL_FIELDS)

\* the base names the per-channel field reactions, the override "off in groups" has
\* no perChannelFields, and in a group the per-channel set is empty
C26_Witness ==
  /\ phase = "stability"
  /\ FirstLevel(StabilityLevels(cfg, query)) # 0
  /\ EffectiveBlock = WithOverrides(<<GroupOff>>)
  /\ EffectiveBlock.perChannelFields = List(<<"reactions">>)
  /\ GroupOff.perChannelFields = Unset
  /\ context = Some([EmptyContext EXCEPT !.chatType = Some(Group)])
  /\ stability # None
  /\ stability[1].perChannelFields = {}

\* C27: a call without a context applies no override, not even one whose `when` has
\* no field, and the result is what the base selectors of the effective block give.
C27_NoContextNoOverride ==
  (phase = "stability" /\ FirstLevel(StabilityLevels(cfg, query)) # 0 /\ context = None) =>
    /\ stability # None
    /\ stability[1].perTurnFields =
         resolveFieldSet(EffectiveBlock.perTurnFields, ALL_PER_TURN_FIELDS)
    /\ stability[1].perChannelFields =
         resolveFieldSet(EffectiveBlock.perChannelFields, ALL_PER_CHANNEL_FIELDS)

\* the first override of the effective block has an empty `when`, the call has no
\* context, and the result is the base: every per-turn field and reactions
C27_Witness ==
  /\ phase = "stability"
  /\ FirstLevel(StabilityLevels(cfg, query)) # 0
  /\ EffectiveBlock = WithOverrides(<<Anyone, GroupOff>>)
  /\ Anyone.when = EmptyWhen
  /\ context = None
  /\ stability = Some([perTurnFields |-> Elements(ALL_PER_TURN_FIELDS),
                       perChannelFields |-> {"reactions"}])

----------------------------------------------------------------------------
(* The name of the temp file.                                              *)
(***************************************************************************)

\* the invocation of w has its temp path (line 116) and has not returned
HasTmpPath(w) == inv[w].pc \in {"stat", "open", "write", "chmod", "rename", "catch"}

\* C28: no two invocations in progress at the same time have the same temp path, and
\* so the rename of one never installs what the other wrote.
C28_UniqueTmpPath ==
  \A w1, w2 \in Writers :
    (w1 # w2 /\ HasTmpPath(w1) /\ HasTmpPath(w2)) => inv[w1].tmpPath # inv[w2].tmpPath

----------------------------------------------------------------------------
(* resolveFieldSet, through resolveKvCacheStability for a configuration    *)
(* whose only block is at agents.defaults.                                 *)
(***************************************************************************)

\* selectors as a configuration file may have them: omitted, true, false, an empty
\* list, a list with a name twice, a list with a name that is no field of the group
PerTurnSelectors ==
  { Unset, Bool(TRUE), Bool(FALSE), List(<<>>), List(<<"sender_id">>),
    List(<<"sender_id", "sender_id">>), List(<<"bogus">>),
    List(<<"was_mentioned", "bogus", "was_mentioned">>) }

PerChannelSelectors ==
  { Unset, Bool(TRUE), Bool(FALSE), List(<<>>), List(<<"reactions", "channel">>),
    List(<<"channel", "channel", "channel">>), List(<<"sender_id">>),
    List(<<"reactions", "", "reactions">>) }

InitFieldSet ==
  /\ RewriteInit
  /\ pidOf = [w \in Writers |-> "p1"]
  /\ cfg \in {OnlyDefaults(Stability(t, c, None)) :
                t \in PerTurnSelectors, c \in PerChannelSelectors}
  /\ phase = "config"
  /\ query = NoQuery
  /\ guardResult = NoResult
  /\ fell = 0
  /\ before = <<>>
  /\ StabilityOff
  /\ MatchOff
  /\ PlanOff

NextFieldSet ==
  \E agentId \in AgentIds, modelKey \in StabilityKeys, c \in {None, Some(EmptyContext)} :
    ResolveStability(agentId, modelKey, c)

SpecFieldSet == InitFieldSet /\ [][NextFieldSet]_vars

\* the selectors of the block at agents.defaults
DefaultsBlock == cfg[1].agents[1].defaults[1].kvCacheStability[1]

\* the set C29 has for a selector and the universe of its group
FieldSetOf(selector, universe) ==
  CASE selector.kind = "boolean" /\ selector.flag -> {universe[k] : k \in 1..Len(universe)}
    [] selector.kind = "boolean" /\ ~selector.flag -> {}
    [] selector.kind = "undefined" -> {}
    [] selector.kind = "array" /\ Len(selector.items) = 0 -> {}
    [] selector.kind = "array" /\ Len(selector.items) > 0 ->
         {name \in Elements(selector.items) \cup Elements(universe) :
            \E k \in 1..Len(selector.items) : selector.items[k] = name}

\* C29: true gives the full universe of the group, false or undefined the empty set,
\* a list exactly the names it lists, a name listed twice counting once and a name
\* outside the universe carried through; an empty list gives the empty set; no
\* selector makes the call throw.
C29_FieldSet ==
  phase = "stability" =>
    /\ ~threw
    /\ stability # None
    /\ stability[1].perTurnFields =
         FieldSetOf(DefaultsBlock.perTurnFields, ALL_PER_TURN_FIELDS)
    /\ stability[1].perChannelFields =
         FieldSetOf(DefaultsBlock.perChannelFields, ALL_PER_CHANNEL_FIELDS)
    /\ DefaultsBlock.perTurnFields.kind = "array" =>
         /\ Cardinality(stability[1].perTurnFields) <= Len(DefaultsBlock.perTurnFields.items)
         /\ \A k \in 1..Len(DefaultsBlock.perTurnFields.items) :
              DefaultsBlock.perTurnFields.items[k] \in stability[1].perTurnFields

\* a list with was_mentioned twice and a name that is no per-turn field: two names
C29_Witness ==
  /\ phase = "stability"
  /\ DefaultsBlock.perTurnFields = List(<<"was_mentioned", "bogus", "was_mentioned">>)
  /\ "bogus" \notin Elements(ALL_PER_TURN_FIELDS)
  /\ stability = Some([perTurnFields |-> {"was_mentioned", "bogus"},
                       perChannelFields |-> {}])

\* true for one group and an empty list for the other
C29_TrueAndEmptyList ==
  /\ phase = "stability"
  /\ DefaultsBlock.perTurnFields = List(<<>>)
  /\ DefaultsBlock.perChannelFields = Bool(TRUE)
  /\ stability # None
  /\ stability[1].perTurnFields = {}
  /\ Cardinality(stability[1].perChannelFields) = Len(ALL_PER_CHANNEL_FIELDS)

\* false for one group and nothing for the other: stability is off
C29_FalseAndUndefined ==
  /\ phase = "stability"
  /\ DefaultsBlock.perTurnFields = Bool(FALSE)
  /\ DefaultsBlock.perChannelFields = Unset
  /\ stability = Some(empty)

----------------------------------------------------------------------------
(* The result of an invocation.                                            *)
(***************************************************************************)

\* the step of w is its return
IsReturn(w) == inv[w].pc # "done" /\ inv'[w].pc = "done"

\* the entries that the invocation of w read uncompacted and that are, at the same
\* place of the file now at the session path, in compacted form
ReplacedInFile(w) ==
  {i \in 1..Len(inv[w].lines) :
     /\ inv[w].lines[i].kind = "json"
     /\ ~IsCompacted(inv[w].lines[i], inv[w].placeholder)
     /\ i <= Len(SessionData')
     /\ IsCompacted(SessionData'[i], inv[w].placeholder)}

\* C30: an invocation that returns persisted = true has had its rename succeed, and
\* its updatedCount is at least 1 and is the number of entries whose content the file
\* now at the session path has replaced by the placeholder; one that returns
\* persisted = false returns updatedCount = 0 and has not changed what is at the
\* session path.
C30_ResultInvariants ==
  [][\A w \in Writers :
       IsReturn(w) =>
         IF inv'[w].result.persisted
           THEN /\ IsRename(w)
                /\ "rename" \in inv'[w].ops
                /\ inv'[w].result.updatedCount >= 1
                /\ inv'[w].result.updatedCount = Cardinality(ReplacedInFile(w))
           ELSE /\ inv'[w].result.updatedCount = 0
                /\ ~inv'[w].changed]_vars

====
